---- MODULE Spec2Model ----
(***************************************************************************)
(* The plan validator of the date planner (src/validators.py).             *)
(*                                                                         *)
(* A Python str is modelled as a sequence of one-character strings, so     *)
(* that lower(), strip(), the regular expressions, strptime and strftime   *)
(* are computed on characters.  A Python value is a record [t, s, n]: its  *)
(* type tag, its characters (for a str) and its number (for an int, a      *)
(* bool, or a float counted in tenths).                                    *)
(***************************************************************************)
EXTENDS Integers, Sequences, FiniteSets, TLC

VARIABLES
    current_date,   \* InputValidator.current_date, captured at construction
    pc,             \* "idle", "validated", "revalidated"
    plan,           \* the plan mapping given to validate_plan
    phrase,         \* how plan's timing was written: its shape and the numbers in it
    resolved,       \* the date the call extracted from plan's timing (ok = FALSE: none)
    checked,        \* what the four field validators returned to validate_plan(plan)
    caller_plan,    \* the caller's plan mapping once validate_plan(plan) is over
    outcome,        \* what validate_plan(plan) returned or raised
    outcome2,       \* what validate_plan(outcome.plan) returned or raised
    clock,          \* the date datetime.now() reads
    validators,     \* the current_date of each InputValidator constructed so far
    calls,          \* the validate_plan calls made on them, with what came of each
    entry,          \* the entry point that runs the pipeline: "cli" or "web"
    surfaced,       \* the validation warning shown to the user (<<>>: none)
    executed,       \* the plan passed to ExecutorAgent.execute
    results,        \* what ExecutorAgent.execute(executed) returned
    fetches,        \* the fetches execute started, in order, and how each ended
    verdict,        \* what verify_and_generate_plan(results) returned or raised
    llm             \* the LLM call of plan synthesis: "not called", "returned", "raised"

callVars == <<clock, validators, calls>>
flowVars == <<entry, surfaced, executed>>
agentVars == <<results, fetches, verdict, llm>>
vars == <<current_date, pc, plan, phrase, resolved, checked, caller_plan, outcome, outcome2,
          callVars, flowVars, agentVars>>

(***************************************************************************)
(* Characters and strings                                                  *)
(***************************************************************************)
UpperCase == <<"A","B","C","D","E","F","G","H","I","J","K","L","M","N","O","P","Q","R","S","T","U","V","W","X","Y","Z">>
LowerCase == <<"a","b","c","d","e","f","g","h","i","j","k","l","m","n","o","p","q","r","s","t","u","v","w","x","y","z">>
Digits == <<"0","1","2","3","4","5","6","7","8","9">>

IsDigit(c) == c \in {"0","1","2","3","4","5","6","7","8","9"}
DigitVal(c) == (CHOOSE i \in 1..10 : Digits[i] = c) - 1
IsSpace(c) == c \in {" ", "\t", "\n"}

LowerChar(c) ==
    IF \E i \in 1..26 : UpperCase[i] = c
    THEN LowerCase[CHOOSE i \in 1..26 : UpperCase[i] = c]
    ELSE c

UpperChar(c) ==
    IF \E i \in 1..26 : LowerCase[i] = c
    THEN UpperCase[CHOOSE i \in 1..26 : LowerCase[i] = c]
    ELSE c

\* str.lower()
Lower(s) == [i \in 1..Len(s) |-> LowerChar(s[i])]

SetMin(S) == CHOOSE x \in S : \A y \in S : x <= y
SetMax(S) == CHOOSE x \in S : \A y \in S : x >= y

\* str.strip()
Strip(s) ==
    LET keep == {i \in 1..Len(s) : ~IsSpace(s[i])}
    IN  IF keep = {} THEN <<>> ELSE SubSeq(s, SetMin(keep), SetMax(keep))

\* s[i:].startswith(w), 1-based
StartsWithAt(s, i, w) ==
    /\ i >= 1
    /\ i + Len(w) - 1 <= Len(s)
    /\ \A k \in 1..Len(w) : s[i + k - 1] = w[k]

\* w in s
Contains(s, w) == \E i \in 1..(Len(s) - Len(w) + 1) : StartsWithAt(s, i, w)

\* the decimal value of a sequence of digits
RECURSIVE DigitsValue(_)
DigitsValue(ds) ==
    IF ds = <<>> THEN 0
    ELSE 10 * DigitsValue(SubSeq(ds, 1, Len(ds) - 1)) + DigitVal(ds[Len(ds)])

\* n written with at least w digits, zero padded (n >= 0)
RECURSIVE ZeroPad(_, _)
ZeroPad(n, w) ==
    IF n < 10 /\ w <= 1 THEN <<Digits[n + 1]>>
    ELSE ZeroPad(n \div 10, w - 1) \o <<Digits[(n % 10) + 1]>>

(***************************************************************************)
(* Python values                                                           *)
(***************************************************************************)
PyStr(s)   == [t |-> "str",   s |-> s,    n |-> 0]
PyInt(n)   == [t |-> "int",   s |-> <<>>, n |-> n]
PyBool(b)  == [t |-> "bool",  s |-> <<>>, n |-> IF b THEN 1 ELSE 0]
PyFloat(tenths) == [t |-> "float", s |-> <<>>, n |-> tenths]
PyInf      == [t |-> "inf",   s |-> <<>>, n |-> 0]
PyNaN      == [t |-> "nan",   s |-> <<>>, n |-> 0]
PyNone     == [t |-> "none",  s |-> <<>>, n |-> 0]
PyList     == [t |-> "list",  s |-> <<>>, n |-> 0]
\* the key is not in the mapping
Absent     == [t |-> "absent", s |-> <<>>, n |-> 0]

\* dict.get(key, default)
Get(p, key, default) == IF p[key] = Absent THEN default ELSE p[key]

(***************************************************************************)
(* Messages: a str built by an f-string is the sequence of its parts, a    *)
(* literal text, an interpolated str or an interpolated number.  The empty *)
(* str is <<>>.  The rupee sign and the emoji of the source are left out   *)
(* of the literal texts (the module is ASCII).                             *)
(***************************************************************************)
Lit(text)  == [k |-> "lit", text |-> text, chars |-> <<>>, n |-> 0]
Val(chars) == [k |-> "str", text |-> "",   chars |-> chars, n |-> 0]
Num(n)     == [k |-> "num", text |-> "",   chars |-> <<>>,  n |-> n]

\* " | ".join(errors)
RECURSIVE Join(_)
Join(errors) ==
    IF errors = <<>> THEN <<>>
    ELSE IF Len(errors) = 1 THEN errors[1]
    ELSE errors[1] \o <<Lit(" | ")>> \o Join(Tail(errors))

\* what a field validator returns: (valid, message, value), or the exception
\* it raises
Returns(valid, msg, value) == [exc |-> "", valid |-> valid, msg |-> msg, value |-> value]
Raises(exc) == [exc |-> exc, valid |-> FALSE, msg |-> <<>>, value |-> PyNone]

(***************************************************************************)
(* City                                                                    *)
(***************************************************************************)
SUPPORTED_CITIES == {
      <<"m","u","m","b","a","i">>,
      <<"d","e","l","h","i">>,
      <<"b","a","n","g","a","l","o","r","e">>,
      <<"b","e","n","g","a","l","u","r","u">>,
      <<"h","y","d","e","r","a","b","a","d">>,
      <<"c","h","e","n","n","a","i">>,
      <<"k","o","l","k","a","t","a">>,
      <<"p","u","n","e">>,
      <<"a","h","m","e","d","a","b","a","d">>,
      <<"j","a","i","p","u","r">>,
      <<"s","u","r","a","t">>,
      <<"l","u","c","k","n","o","w">>,
      <<"k","a","n","p","u","r">>,
      <<"n","a","g","p","u","r">>,
      <<"i","n","d","o","r","e">>,
      <<"t","h","a","n","e">>,
      <<"b","h","o","p","a","l">>,
      <<"v","i","s","a","k","h","a","p","a","t","n","a","m">>,
      <<"p","i","m","p","r","i","-","c","h","i","n","c","h","w","a","d">>,
      <<"p","a","t","n","a">>,
      <<"g","u","r","g","a","o","n">>,
      <<"g","u","r","u","g","r","a","m">>,
      <<"n","o","i","d","a">>,
      <<"g","h","a","z","i","a","b","a","d">> }

\* the default city, "Bangalore"
DefaultCity == <<"B","a","n","g","a","l","o","r","e">>

\* the test `city_lower not in self.SUPPORTED_CITIES`
CityUnsupported(city_lower) == city_lower \notin SUPPORTED_CITIES

\* CheckCity with a slip: the normalised city is returned, not the given one
CheckCityNormalised(city, city_lower) ==
    IF city_lower = <<>>
    THEN Returns(FALSE, <<Lit("City not specified")>>, PyStr(DefaultCity))
    ELSE IF CityUnsupported(city_lower)
    THEN Returns(FALSE,
                 <<Lit("City '"), Val(city.s),
                   Lit("' not supported. Using Bangalore instead.")>>,
                 PyStr(DefaultCity))
    ELSE Returns(TRUE, <<>>, PyStr(city_lower))

\* lines 75-81 of _validate_city, city_lower computed
CheckCity(city, city_lower) ==
    IF city_lower = <<>>
    THEN Returns(FALSE, <<Lit("City not specified")>>, PyStr(DefaultCity))
    ELSE IF CityUnsupported(city_lower)
    THEN Returns(FALSE,
                 <<Lit("City '"), Val(city.s),
                   Lit("' not supported. Using Bangalore instead.")>>,
                 PyStr(DefaultCity))
    ELSE Returns(TRUE, <<>>, city)

\* _validate_city(city); city.lower() raises AttributeError on a non-str
validate_city(city) ==
    IF city.t # "str" THEN Raises("AttributeError")
    ELSE CheckCity(city, Strip(Lower(city.s)))

(***************************************************************************)
(* Budget                                                                  *)
(***************************************************************************)
MIN_BUDGET == 500
MAX_BUDGET == 50000
DefaultBudget == 2000

\* the digits ds of an int literal with its sign: [exc, n]
SignedDigits(negative, ds) ==
    IF ds # <<>> /\ \A i \in 1..Len(ds) : IsDigit(ds[i])
    THEN [exc |-> "", n |-> IF negative THEN 0 - DigitsValue(ds) ELSE DigitsValue(ds)]
    ELSE [exc |-> "ValueError", n |-> 0]

\* int(str) of the stripped str b: an optional sign, then digits
ParseStripped(b) ==
    IF Len(b) >= 1 /\ b[1] \in {"+", "-"}
    THEN SignedDigits(b[1] = "-", Tail(b))
    ELSE SignedDigits(FALSE, b)

\* int(str): surrounding whitespace is ignored
ParseInt(s) == ParseStripped(Strip(s))

\* int(budget): [exc, n]
IntOf(v) ==
    CASE v.t = "int"   -> [exc |-> "", n |-> v.n]
      [] v.t = "bool"  -> [exc |-> "", n |-> v.n]
      [] v.t = "float" -> [exc |-> "",
                           n |-> IF v.n >= 0 THEN v.n \div 10 ELSE 0 - ((0 - v.n) \div 10)]
      [] v.t = "str"   -> ParseInt(v.s)
      [] v.t = "nan"   -> [exc |-> "ValueError", n |-> 0]
      [] v.t = "inf"   -> [exc |-> "OverflowError", n |-> 0]
      [] OTHER         -> [exc |-> "TypeError", n |-> 0]

\* BelowMin with a slip: <= for <
BelowOrAtMin(b) == b <= MIN_BUDGET

\* the test `budget < self.MIN_BUDGET`
BelowMin(b) == b < MIN_BUDGET
\* the test `budget > self.MAX_BUDGET`
AboveMax(b) == b > MAX_BUDGET

\* lines 90-96 of _validate_budget, for the int b
ClampBudget(b) ==
    IF BelowMin(b)
    THEN Returns(FALSE,
                 <<Lit("Budget too low (minimum "), Num(MIN_BUDGET),
                   Lit("). Adjusted to "), Num(MIN_BUDGET), Lit(".")>>,
                 PyInt(MIN_BUDGET))
    ELSE IF AboveMax(b)
    THEN Returns(FALSE,
                 <<Lit("Budget too high (maximum "), Num(MAX_BUDGET),
                   Lit("). Adjusted to "), Num(MAX_BUDGET), Lit(".")>>,
                 PyInt(MAX_BUDGET))
    ELSE Returns(TRUE, <<>>, PyInt(b))

\* the exceptions of int(budget) that the except clause catches
CaughtByBudget == {"ValueError", "TypeError"}

\* lines 85-96, c the outcome of int(budget)
CoerceBudget(c) ==
    IF c.exc \in CaughtByBudget
    THEN Returns(FALSE, <<Lit("Invalid budget. Using default 2000.")>>,
                 PyInt(DefaultBudget))
    ELSE IF c.exc # "" THEN Raises(c.exc)
    ELSE ClampBudget(c.n)

\* _validate_budget(budget)
validate_budget(budget) == CoerceBudget(IntOf(budget))

(***************************************************************************)
(* Date type                                                               *)
(***************************************************************************)
DefaultDateType == <<"c","a","s","u","a","l">>

valid_types == {
      <<"r","o","m","a","n","t","i","c">>,
      <<"c","a","s","u","a","l">>,
      <<"c","o","z","y">>,
      <<"b","u","d","g","e","t">>,
      <<"b","u","d","g","e","t","-","f","r","i","e","n","d","l","y">>,
      <<"f","o","r","m","a","l">>,
      <<"f","u","n">> }

\* CheckDateType with a slip: a date type outside valid_types is replaced too
CheckDateTypeStrict(date_type, date_type_lower) ==
    IF date_type_lower = <<>> \/ date_type_lower \notin valid_types
    THEN Returns(FALSE, <<Lit("Date type not specified. Using 'casual'.")>>,
                 PyStr(DefaultDateType))
    ELSE Returns(TRUE, <<>>, date_type)

\* lines 162-169 of _validate_date_type, date_type_lower computed
CheckDateType(date_type, date_type_lower) ==
    IF date_type_lower = <<>>
    THEN Returns(FALSE, <<Lit("Date type not specified. Using 'casual'.")>>,
                 PyStr(DefaultDateType))
    ELSE IF date_type_lower \notin valid_types
    THEN Returns(TRUE, <<>>, date_type)
    ELSE Returns(TRUE, <<>>, date_type)

\* _validate_date_type(date_type)
validate_date_type(date_type) ==
    IF date_type.t # "str" THEN Raises("AttributeError")
    ELSE CheckDateType(date_type, Strip(Lower(date_type.s)))

(***************************************************************************)
(* Calendar dates (datetime.date): records [y, m, d]                       *)
(***************************************************************************)
IsLeap(y) == (y % 4 = 0 /\ y % 100 # 0) \/ y % 400 = 0

DaysInMonth(y, m) ==
    IF m = 2 THEN (IF IsLeap(y) THEN 29 ELSE 28)
    ELSE IF m \in {4, 6, 9, 11} THEN 30 ELSE 31

\* the constructor of datetime raises ValueError outside these ranges
ValidDate(y, m, d) ==
    /\ y >= 1 /\ y <= 9999
    /\ m >= 1 /\ m <= 12
    /\ d >= 1 /\ d <= DaysInMonth(y, m)

\* a.date() < b.date()
DateBefore(a, b) ==
    \/ a.y < b.y
    \/ a.y = b.y /\ a.m < b.m
    \/ a.y = b.y /\ a.m = b.m /\ a.d < b.d

\* parsed_date.replace(year=y): [ok, y, m, d], ok = FALSE for ValueError
ReplaceYear(date, y) ==
    [ok |-> ValidDate(y, date.m, date.d), y |-> y, m |-> date.m, d |-> date.d]

MonthAbbr == <<
      <<"j","a","n">>,
      <<"f","e","b">>,
      <<"m","a","r">>,
      <<"a","p","r">>,
      <<"m","a","y">>,
      <<"j","u","n">>,
      <<"j","u","l">>,
      <<"a","u","g">>,
      <<"s","e","p">>,
      <<"o","c","t">>,
      <<"n","o","v">>,
      <<"d","e","c">> >>

MonthFull == <<
      <<"j","a","n","u","a","r","y">>,
      <<"f","e","b","r","u","a","r","y">>,
      <<"m","a","r","c","h">>,
      <<"a","p","r","i","l">>,
      <<"m","a","y">>,
      <<"j","u","n","e">>,
      <<"j","u","l","y">>,
      <<"a","u","g","u","s","t">>,
      <<"s","e","p","t","e","m","b","e","r">>,
      <<"o","c","t","o","b","e","r">>,
      <<"n","o","v","e","m","b","e","r">>,
      <<"d","e","c","e","m","b","e","r">> >>

\* strftime('%B'): the month's full name, capitalised
MonthTitle(m) == <<UpperChar(MonthFull[m][1])>> \o Tail(MonthFull[m])

\* strftime('%B %d')
StrfMonthDay(date) == MonthTitle(date.m) \o <<" ">> \o ZeroPad(date.d, 2)

\* strftime('%B %d, %Y')
StrfMonthDayYear(date) == StrfMonthDay(date) \o <<",", " ">> \o ZeroPad(date.y, 4)

(***************************************************************************)
(* The regular expressions of date_patterns.  A match is [start, end]      *)
(* (1-based, inclusive); start = 0 when re.search finds none.              *)
(***************************************************************************)
Ordinals == { <<"s","t">>, <<"n","d">>, <<"r","d">>, <<"t","h">> }

NoMatch == [start |-> 0, end |-> 0]

\* the first of two alternatives that matches (0: no match)
OrElse(first, second) == IF first # 0 THEN first ELSE second

\* the least element of a set of positive numbers, 0 when it is empty
LeastOrZero(S) == IF S = {} THEN 0 ELSE SetMin(S)

\* how many of s[i], s[i+1], ... are digits, counting at most max
DigitRun(s, i, max) ==
    SetMax({k \in 0..max : \A j \in 0..(k - 1) : i + j <= Len(s) /\ IsDigit(s[i + j])})

\* the index after the whitespace that starts at k (\s+, greedy)
AfterSpaces(s, k) ==
    SetMin({r \in k..(Len(s) + 1) : r = Len(s) + 1 \/ ~IsSpace(s[r])})

\* the month (1..12) whose name is at s[i:], the first of the alternation; 0 if none
NameAt(s, i, names) == LeastOrZero({m \in 1..12 : StartsWithAt(s, i, names[m])})

\* the index of the last character of the name of month m (0: none) met at r
NameEnd(r, m, names) == IF m # 0 THEN r + Len(names[m]) - 1 ELSE 0

\* (name|...) at r, where the whitespace that started at k has ended
NameAfterSpaces(s, k, r, names) ==
    IF r > k THEN NameEnd(r, NameAt(s, r, names), names) ELSE 0

\* \s+(name|...) at k: the index of the match's last character, or 0
SpacesThenName(s, k, names) == NameAfterSpaces(s, k, AfterSpaces(s, k), names)

\* (st|nd|rd|th)?\s+(name|...) at j, the suffix tried first
SuffixSpacesName(s, j, names) ==
    OrElse(IF \E o \in Ordinals : StartsWithAt(s, j, o)
           THEN SpacesThenName(s, j + 2, names) ELSE 0,
           SpacesThenName(s, j, names))

\* (\d{1,2})(st|nd|rd|th)?\s+(name|...) where n digits (at most 2) start at i,
\* two digits tried first
DayThenMonth(s, i, n, names) ==
    IF n = 0 THEN 0
    ELSE OrElse(IF n = 2 THEN SuffixSpacesName(s, i + 2, names) ELSE 0,
                SuffixSpacesName(s, i + 1, names))

DayMonthAt(s, i, names) == DayThenMonth(s, i, DigitRun(s, i, 2), names)

\* /(\d{1,2})/(\d{4}) after a day of a digits at i, the month of b digits
SlashRest(s, i, a, b) ==
    IF /\ a >= 1
       /\ StartsWithAt(s, i + a, <<"/">>)
       /\ b >= 1
       /\ StartsWithAt(s, i + a + 1 + b, <<"/">>)
       /\ DigitRun(s, i + a + b + 2, 4) = 4
    THEN i + a + b + 5 ELSE 0

SlashMonth(s, i, a) == SlashRest(s, i, a, DigitRun(s, i + a + 1, 2))

\* (\d{1,2})/(\d{1,2})/(\d{4}) at i
SlashDateAt(s, i) == SlashMonth(s, i, DigitRun(s, i, 2))

\* (\d{4})-(\d{1,2})-(\d{1,2}) at i, the month of b digits, the day of c digits
IsoRest(s, i, b, c) ==
    IF /\ DigitRun(s, i, 4) = 4
       /\ StartsWithAt(s, i + 4, <<"-">>)
       /\ b >= 1
       /\ StartsWithAt(s, i + 5 + b, <<"-">>)
       /\ c >= 1
    THEN i + 5 + b + c ELSE 0

IsoDay(s, i, b) == IsoRest(s, i, b, DigitRun(s, i + 6 + b, 2))

\* (\d{4})-(\d{1,2})-(\d{1,2}) at i
IsoDateAt(s, i) == IsoDay(s, i, DigitRun(s, i + 5, 2))

\* date_patterns: the pattern's regular expression and its strptime format
date_patterns == <<
    [re |-> "day_abbr", format |-> <<"%d", " ", "%b">>],
    [re |-> "day_full", format |-> <<"%d", " ", "%B">>],
    [re |-> "slash",    format |-> <<"%d", "/", "%m", "/", "%Y">>],
    [re |-> "iso",      format |-> <<"%Y", "-", "%m", "-", "%d">>] >>

\* the pattern's match at position i: the index of its last character, or 0
PatternAt(re, s, i) ==
    CASE re = "day_abbr" -> DayMonthAt(s, i, MonthAbbr)
      [] re = "day_full" -> DayMonthAt(s, i, MonthFull)
      [] re = "slash"    -> SlashDateAt(s, i)
      [] re = "iso"      -> IsoDateAt(s, i)

\* the match that starts at i (0: none)
MatchFrom(re, s, i) ==
    IF i = 0 THEN NoMatch ELSE [start |-> i, end |-> PatternAt(re, s, i)]

\* re.search(pattern, s): the leftmost match
Search(re, s) ==
    MatchFrom(re, s, LeastOrZero({i \in 1..Len(s) : PatternAt(re, s, i) # 0}))

\* re.sub(r'(st|nd|rd|th)', '', s)
RECURSIVE RemoveOrdinals(_)
RemoveOrdinals(s) ==
    IF s = <<>> THEN <<>>
    ELSE IF \E o \in Ordinals : StartsWithAt(s, 1, o)
    THEN RemoveOrdinals(SubSeq(s, 3, Len(s)))
    ELSE <<s[1]>> \o RemoveOrdinals(Tail(s))

(***************************************************************************)
(* datetime.strptime(s, format): [ok, y, m, d]; ok = FALSE is ValueError.  *)
(* The directives are matched as the regular expressions of _strptime:     *)
(*   %d  3[0-1]|[1-2]\d|0[1-9]|[1-9]| [1-9]     %m  1[0-2]|0[1-9]|[1-9]    *)
(*   %Y  \d\d\d\d      %b, %B  a month name      ' '  \s+                  *)
(* and the whole of s must be consumed.  A missing year is 1900.           *)
(***************************************************************************)
StrpFail == [ok |-> FALSE, y |-> 0, m |-> 0, d |-> 0]

\* one alternative of a numeric directive: the value val read from len
\* characters, if it is in lo..hi
Alternative(len, val, lo, hi) ==
    IF val >= lo /\ val <= hi THEN <<[len |-> len, val |-> val]>> ELSE <<>>

\* the alternatives of a numeric directive at s[i:], in the order of its
\* regular expression: a sequence of [len, val]
NumAlternatives(dir, s, i) ==
    (IF DigitRun(s, i, 2) = 2
     THEN Alternative(2, DigitsValue(SubSeq(s, i, i + 1)), 1, IF dir = "%d" THEN 31 ELSE 12)
     ELSE <<>>)
    \o (IF DigitRun(s, i, 1) = 1 THEN Alternative(1, DigitVal(s[i]), 1, 9) ELSE <<>>)
    \o (IF dir = "%d" /\ StartsWithAt(s, i, <<" ">>) /\ DigitRun(s, i + 1, 1) = 1
        THEN Alternative(2, DigitVal(s[i + 1]), 1, 9) ELSE <<>>)

\* the first of two ways to match that succeeds
FirstOk(r, otherwise) == IF r.ok THEN r ELSE otherwise

RECURSIVE StrpFrom(_, _, _, _, _)
RECURSIVE StrpFirst(_, _, _, _, _, _, _)
RECURSIVE StrpName(_, _, _, _, _, _, _)

\* match format[k..] at s[i:], acc the fields found so far
StrpFrom(s, i, format, k, acc) ==
    IF k > Len(format)
    THEN (IF i = Len(s) + 1 THEN [acc EXCEPT !.ok = TRUE] ELSE StrpFail)
    ELSE CASE format[k] \in {"%d", "%m"} ->
                StrpFirst(s, i, format, k, acc, NumAlternatives(format[k], s, i), 1)
           [] format[k] = "%Y" ->
                IF DigitRun(s, i, 4) = 4
                THEN StrpFrom(s, i + 4, format, k + 1,
                              [acc EXCEPT !.y = DigitsValue(SubSeq(s, i, i + 3))])
                ELSE StrpFail
           [] format[k] = "%b" ->
                StrpName(s, i, format, k, acc, MonthAbbr, NameAt(Lower(s), i, MonthAbbr))
           [] format[k] = "%B" ->
                StrpName(s, i, format, k, acc, MonthFull, NameAt(Lower(s), i, MonthFull))
           [] format[k] = " " ->
                IF AfterSpaces(s, i) > i
                THEN StrpFrom(s, AfterSpaces(s, i), format, k + 1, acc)
                ELSE StrpFail
           [] OTHER ->
                IF StartsWithAt(s, i, <<format[k]>>)
                THEN StrpFrom(s, i + 1, format, k + 1, acc)
                ELSE StrpFail

\* %b or %B at s[i:], where the name of month m (0: none) is
StrpName(s, i, format, k, acc, names, m) ==
    IF m # 0
    THEN StrpFrom(s, i + Len(names[m]), format, k + 1, [acc EXCEPT !.m = m])
    ELSE StrpFail

\* the first alternative alts[a..] of the numeric directive format[k] with
\* which the rest of the format matches
StrpFirst(s, i, format, k, acc, alts, a) ==
    IF a > Len(alts) THEN StrpFail
    ELSE FirstOk(StrpFrom(s, i + alts[a].len, format, k + 1,
                          IF format[k] = "%d" THEN [acc EXCEPT !.d = alts[a].val]
                          ELSE [acc EXCEPT !.m = alts[a].val]),
                 StrpFirst(s, i, format, k, acc, alts, a + 1))

\* the datetime of the fields r that were matched
StrpDate(r) == IF r.ok /\ ValidDate(r.y, r.m, r.d) THEN r ELSE StrpFail

Strptime(s, format) ==
    StrpDate(StrpFrom(s, 1, format, 1, [ok |-> FALSE, y |-> 1900, m |-> 1, d |-> 1]))

(***************************************************************************)
(* Timing: the past-date guardrail                                         *)
(***************************************************************************)
Today == <<"t","o","d","a","y">>

\* the keywords compared with ==
ExactKeywords == {
      <<"t","o","d","a","y">>,
      <<"t","o","n","i","g","h","t">>,
      <<"t","h","i","s"," ","e","v","e","n","i","n","g">>,
      <<"t","o","m","o","r","r","o","w">> }

\* ContainedKeywords with a slip: 'weekend' is left out
ContainedKeywordsWeekOnly == { <<"t","h","i","s"," ","w","e","e","k">> }

\* the keywords looked for with `in`
ContainedKeywords == {
      <<"w","e","e","k","e","n","d">>,
      <<"t","h","i","s"," ","w","e","e","k">> }

\* the value substituted for a rejected past date
PastFallback == PyStr(Today)

\* the value returned by the next-year rollover
RolloverTiming(adjusted) == PyStr(StrfMonthDay(adjusted))

\* MonthEarlier with a slip: the day breaks the tie within the current month
MonthOrDayEarlier(parsed, now) ==
    parsed.m < now.m \/ (parsed.m = now.m /\ parsed.d < now.d)

\* MonthEarlier with a slip: the month is compared with the month the clock
\* reads when the call is made
MonthEarlierByClock(parsed, now) == parsed.m < clock.m

\* the test `parsed_date.month < self.current_date.month`
MonthEarlier(parsed, now) == parsed.m < now.m

\* InThePast with a slip: the datetimes are compared, not their dates, so
\* that midnight of the current date counts as past
InThePastOrToday(parsed, now) ==
    DateBefore(parsed, now) \/ (parsed.y = now.y /\ parsed.m = now.m /\ parsed.d = now.d)

\* the test `parsed_date.date() < self.current_date.date()`
InThePast(parsed, now) == DateBefore(parsed, now)

\* line 144, adjusted the outcome of replace(year=current year + 1)
Rollover(adjusted) ==
    IF adjusted.ok
    THEN Returns(TRUE,
                 <<Lit("Date adjusted to "), Val(StrfMonthDayYear(adjusted)),
                   Lit(" (next year)")>>,
                 RolloverTiming(adjusted))
    ELSE Raises("ValueError")

\* JudgeDate with a slip: the rollover adds one to the year of the parsed
\* date, not to the current year
JudgeDateYearAfterParsed(timing, parsed, now) ==
    IF InThePast(parsed, now)
    THEN IF MonthEarlier(parsed, now)
         THEN Rollover(ReplaceYear(parsed, parsed.y + 1))
         ELSE Returns(FALSE,
                      <<Lit("Date '"), Val(timing.s),
                        Lit("' is in the past. Please choose a future date.")>>,
                      PastFallback)
    ELSE Returns(TRUE, <<>>, timing)

\* JudgeDate with a slip: a rejected past date is reported but the timing is
\* returned as it was given, not replaced by "today"
JudgeDateKeepsTiming(timing, parsed, now) ==
    IF InThePast(parsed, now)
    THEN IF MonthEarlier(parsed, now)
         THEN Rollover(ReplaceYear(parsed, now.y + 1))
         ELSE Returns(FALSE,
                      <<Lit("Date '"), Val(timing.s),
                        Lit("' is in the past. Please choose a future date.")>>,
                      timing)
    ELSE Returns(TRUE, <<>>, timing)

\* lines 139-148, for the date parsed from a pattern: the (valid, message,
\* timing) returned, or exc = "ValueError" when replace() raises
JudgeDate(timing, parsed, now) ==
    IF InThePast(parsed, now)
    THEN IF MonthEarlier(parsed, now)
         THEN Rollover(ReplaceYear(parsed, now.y + 1))
         ELSE Returns(FALSE,
                      <<Lit("Date '"), Val(timing.s),
                        Lit("' is in the past. Please choose a future date.")>>,
                      PastFallback)
    ELSE Returns(TRUE, <<>>, timing)

\* lines 139-148 once the year is settled
JudgeDated(timing, dated, now) ==
    IF ~dated.ok THEN Raises("ValueError") ELSE JudgeDate(timing, dated, now)

\* lines 135-148, parsed the outcome of strptime
JudgeParsed(timing, parsed, now) ==
    IF ~parsed.ok THEN Raises("ValueError")
    ELSE JudgeDated(timing,
                    IF parsed.y = 1900 THEN ReplaceYear(parsed, now.y) ELSE parsed,
                    now)

\* lines 126-151 for pattern k, given its match: the try block
TryPattern(timing, timing_lower, now, k, match) ==
    JudgeParsed(timing,
                Strptime(RemoveOrdinals(SubSeq(timing_lower, match.start, match.end)),
                         date_patterns[k].format),
                now)

RECURSIVE PatternLoop(_, _, _, _)
RECURSIVE AfterTry(_, _, _, _, _)
RECURSIVE AfterSearch(_, _, _, _, _)

\* PatternLoop with a slip: a timing that no pattern settles is rejected
PatternLoopFailClosed(timing, timing_lower, now, k) ==
    IF k > Len(date_patterns)
    THEN Returns(FALSE,
                 <<Lit("Date '"), Val(timing.s),
                   Lit("' is in the past. Please choose a future date.")>>,
                 PastFallback)
    ELSE AfterSearch(timing, timing_lower, now, k,
                     Search(date_patterns[k].re, timing_lower))

\* the loop `for pattern, date_format in date_patterns` from pattern k on,
\* and line 154 after it
PatternLoop(timing, timing_lower, now, k) ==
    IF k > Len(date_patterns) THEN Returns(TRUE, <<>>, timing)
    ELSE AfterSearch(timing, timing_lower, now, k,
                     Search(date_patterns[k].re, timing_lower))

\* `if match:`, and `continue` when there is none
AfterSearch(timing, timing_lower, now, k, match) ==
    IF match.start = 0
    THEN PatternLoop(timing, timing_lower, now, k + 1)
    ELSE AfterTry(timing, timing_lower, now, k,
                  TryPattern(timing, timing_lower, now, k, match))

\* AfterTry with a slip: after a ValueError no further pattern is tried, and
\* line 154 accepts the timing
AfterTryAccepts(timing, timing_lower, now, k, r) ==
    IF r.exc = "ValueError" THEN Returns(TRUE, <<>>, timing) ELSE r

\* `except ValueError: continue`, r the outcome of the try block
AfterTry(timing, timing_lower, now, k, r) ==
    IF r.exc = "ValueError"
    THEN PatternLoop(timing, timing_lower, now, k + 1)
    ELSE r

\* lines 105-154, timing_lower computed
CheckTiming(timing, timing_lower, now) ==
    IF timing_lower \in ExactKeywords THEN Returns(TRUE, <<>>, timing)
    ELSE IF \E w \in ContainedKeywords : Contains(timing_lower, w)
    THEN Returns(TRUE, <<>>, timing)
    ELSE PatternLoop(timing, timing_lower, now, 1)

\* _validate_date_time(timing) with self.current_date = now
validate_date_time(timing, now) ==
    IF timing.t # "str" THEN Raises("AttributeError")
    ELSE CheckTiming(timing, Strip(Lower(timing.s)), now)

(***************************************************************************)
(* The date a call extracts: what lines 123-137 resolve a timing to        *)
(***************************************************************************)
RECURSIVE FirstParsed(_, _)
RECURSIVE ParsedOrNext(_, _, _)

\* the date strptime yields for the first of the patterns k, k+1, ... that
\* matches timing_lower and parses (ok = FALSE: none does)
FirstParsed(timing_lower, k) ==
    IF k > Len(date_patterns) THEN StrpFail
    ELSE ParsedOrNext(timing_lower, k, Search(date_patterns[k].re, timing_lower))

ParsedOrNext(timing_lower, k, match) ==
    IF match.start = 0 THEN FirstParsed(timing_lower, k + 1)
    ELSE FirstOk(Strptime(RemoveOrdinals(SubSeq(timing_lower, match.start, match.end)),
                          date_patterns[k].format),
                 FirstParsed(timing_lower, k + 1))

\* a parsed date with the current year put for the year 1900
InCurrentYear(parsed, now) ==
    IF parsed.ok /\ parsed.y = 1900 THEN ReplaceYear(parsed, now.y) ELSE parsed

\* the date extracted from a timing and resolved against now (ok = FALSE when
\* the timing is no str, is a relative keyword, or holds no date), of the
\* lower-cased trimmed timing
ResolvedFrom(timing_lower, now) ==
    IF timing_lower \in ExactKeywords THEN StrpFail
    ELSE IF \E w \in ContainedKeywords : Contains(timing_lower, w) THEN StrpFail
    ELSE InCurrentYear(FirstParsed(timing_lower, 1), now)

ResolvedDate(timing, now) ==
    IF timing.t # "str" THEN StrpFail ELSE ResolvedFrom(Strip(Lower(timing.s)), now)

(***************************************************************************)
(* validate_plan                                                           *)
(***************************************************************************)
Returned(valid, message, corrected) ==
    [raised |-> FALSE, exc |-> "", valid |-> valid, message |-> message, plan |-> corrected]

NoPlan == [city |-> Absent, budget |-> Absent, timing |-> Absent, date_type |-> Absent,
           needs_weather |-> Absent, needs_restaurants |-> Absent,
           special_requirements |-> Absent]

Raised(exc) ==
    [raised |-> TRUE, exc |-> exc, valid |-> FALSE, message |-> <<>>, plan |-> NoPlan]

NoOutcome == Raised("")

\* errors.append(error) when the field is not valid
Note(valid, msg) == IF valid THEN <<>> ELSE <<msg>>

\* lines 66-69
Result(errors, corrected_plan) ==
    IF errors # <<>> THEN Returned(FALSE, Join(errors), corrected_plan)
    ELSE Returned(TRUE, <<>>, corrected_plan)

\* Assemble with a slip: the budget is validated, and its note appended,
\* before the city
AssembleBudgetFirst(p, c, b, t, dt) ==
    IF c.exc # "" THEN Raised(c.exc)
    ELSE IF b.exc # "" THEN Raised(b.exc)
    ELSE IF t.exc # "" THEN Raised(t.exc)
    ELSE IF dt.exc # "" THEN Raised(dt.exc)
    ELSE Result(Note(b.valid, b.msg) \o Note(c.valid, c.msg)
                \o Note(t.valid, t.msg) \o Note(dt.valid, dt.msg),
                [p EXCEPT !.city = c.value, !.budget = b.value,
                          !.timing = t.value, !.date_type = dt.value])

\* validate_plan once the four field validators have returned c, b, t, dt;
\* the first of them that raised ends the call
Assemble(p, c, b, t, dt) ==
    IF c.exc # "" THEN Raised(c.exc)
    ELSE IF b.exc # "" THEN Raised(b.exc)
    ELSE IF t.exc # "" THEN Raised(t.exc)
    ELSE IF dt.exc # "" THEN Raised(dt.exc)
    ELSE Result(Note(c.valid, c.msg) \o Note(b.valid, b.msg)
                \o Note(t.valid, t.msg) \o Note(dt.valid, dt.msg),
                [p EXCEPT !.city = c.value, !.budget = b.value,
                          !.timing = t.value, !.date_type = dt.value])

\* a field validator that was not called: an earlier one raised
NotRun == [exc |-> "", valid |-> FALSE, msg |-> <<>>, value |-> Absent]

\* the locals of validate_plan: (city_valid, city_error, corrected_city), ...
Checked(c, b, t, dt) == [city |-> c, budget |-> b, timing |-> t, date_type |-> dt]

\* line 61, reached when the first three returned
ChecksAfterTiming(p, c, b, t) ==
    IF t.exc # "" THEN Checked(c, b, t, NotRun)
    ELSE Checked(c, b, t, validate_date_type(Get(p, "date_type", PyStr(<<>>))))

\* line 55, reached when the first two returned
ChecksAfterBudget(p, now, c, b) ==
    IF b.exc # "" THEN Checked(c, b, NotRun, NotRun)
    ELSE ChecksAfterTiming(p, c, b,
                           validate_date_time(Get(p, "timing", PyStr(Today)), now))

\* ChecksAfterCity with a slip: a missing budget defaults to 2000
ChecksAfterCityDefault2000(p, now, c) ==
    IF c.exc # "" THEN Checked(c, NotRun, NotRun, NotRun)
    ELSE ChecksAfterBudget(p, now, c, validate_budget(Get(p, "budget", PyInt(2000))))

\* line 49, reached when _validate_city returned
ChecksAfterCity(p, now, c) ==
    IF c.exc # "" THEN Checked(c, NotRun, NotRun, NotRun)
    ELSE ChecksAfterBudget(p, now, c, validate_budget(Get(p, "budget", PyInt(0))))

\* lines 43, 49, 55 and 61: each field validator is given the value of its
\* own key, or the default of plan.get, and nothing else of the plan
Checks(p, now) == ChecksAfterCity(p, now, validate_city(Get(p, "city", PyStr(<<>>))))

\* what validate_plan makes of the four results
Outcome(p, ch) == Assemble(p, ch.city, ch.budget, ch.timing, ch.date_type)

\* validate_plan(p) with self.current_date = now
validate_plan(p, now) == Outcome(p, Checks(p, now))

\* AfterCall with a slip: corrected_plan = plan, with no copy, so that the
\* assignments reach the caller's mapping
AfterCallAliased(p, corrected_plan) == corrected_plan

\* the mapping the caller passed, as it is once the call is over: line 39
\* copies it, and lines 46, 52, 58 and 64 assign to the copy
AfterCall(p, corrected_plan) == p

(***************************************************************************)
(* The inputs: current dates and candidate plans                           *)
(***************************************************************************)
\* the current year ranges over 2023 .. 2023 + YearSpan
YearSpan == 1
\* a timing phrase is led by 0 .. MaxPad blanks
MaxPad == 1
\* integer budgets within BudgetMargin of MIN_BUDGET and of MAX_BUDGET
BudgetMargin == 1

NowYears == 2023..(2023 + YearSpan)

NowDates ==
    {[y |-> y, m |-> md[1], d |-> md[2]] :
        y \in NowYears, md \in {<<1, 1>>, <<3, 10>>, <<6, 15>>, <<12, 31>>}}

Blanks(k) == [i \in 1..k |-> " "]

\* a timing together with what it says: shape "day_month", "slash" or "iso"
\* for a phrase written with day d, month m and year y (0: no year); shape
\* "text" for any other str, "value" for a non-str or a missing key
Phrase(shape, value, d, m, y) == [shape |-> shape, value |-> value, d |-> d, m |-> m, y |-> y]

TextPhrase(s) == Phrase("text", PyStr(s), 0, 0, 0)
ValuePhrase(v) == Phrase("value", v, 0, 0, 0)

DayForms == { <<"1">>, <<"0","5">>, <<"1","0">>, <<"2","9">>, <<"3","1">>, <<"0">>, <<"3","2">> }
OrdinalForms == {<<>>, <<"t","h">>}
NamedMonths == {1, 2, 6, 8, 12}
MonthNameForms(m) == { MonthAbbr[m], MonthTitle(m) }
MonthNumberForms == { <<"1">>, <<"0","2">>, <<"6">>, <<"1","2">>, <<"1","3">> }
TrailingYears == {0, 2020}
StatedYears == {1900, 2020} \cup (2023..(2023 + YearSpan + 1))

DayMonthPhrase(pad, day, ord, name, m, y) ==
    Phrase("day_month",
           PyStr(Blanks(pad) \o day \o ord \o <<" ">> \o name
                 \o (IF y = 0 THEN <<>> ELSE <<" ">> \o ZeroPad(y, 4))),
           DigitsValue(day), m, y)

SlashPhrase(pad, day, mon, y) ==
    Phrase("slash",
           PyStr(Blanks(pad) \o day \o <<"/">> \o mon \o <<"/">> \o ZeroPad(y, 4)),
           DigitsValue(day), DigitsValue(mon), y)

IsoPhrase(pad, day, mon, y) ==
    Phrase("iso",
           PyStr(Blanks(pad) \o ZeroPad(y, 4) \o <<"-">> \o mon \o <<"-">> \o day),
           DigitsValue(day), DigitsValue(mon), y)

DayMonthPhrases ==
    {DayMonthPhrase(pad, day, ord, name[2], name[1], y) :
        pad \in 0..MaxPad, day \in DayForms, ord \in OrdinalForms,
        name \in UNION {{<<m, f>> : f \in MonthNameForms(m)} : m \in NamedMonths},
        y \in TrailingYears}

SlashPhrases ==
    {SlashPhrase(pad, day, mon, y) :
        pad \in 0..MaxPad, day \in DayForms, mon \in MonthNumberForms, y \in StatedYears}

IsoPhrases ==
    {IsoPhrase(pad, day, mon, y) :
        pad \in 0..MaxPad, day \in DayForms, mon \in MonthNumberForms, y \in StatedYears}

TextPhrases ==
    {TextPhrase(s) : s \in {
        <<>>,
        <<" ">>,
        <<"t","o","d","a","y">>,
        <<"T","o","n","i","g","h","t">>,
        <<"t","h","i","s"," ","e","v","e","n","i","n","g">>,
        <<" ","t","o","m","o","r","r","o","w">>,
        <<"t","h","i","s"," ","w","e","e","k","e","n","d">>,
        <<"n","e","x","t"," ","w","e","e","k","e","n","d"," ","1","0","t","h"," ","j","a","n">>,
        <<"l","a","t","e","r"," ","t","h","i","s"," ","w","e","e","k">>,
        <<"n","e","x","t"," ","w","e","e","k">>,
        <<"J","a","n","u","a","r","y"," ","1","0">>,
        <<"s","o","o","n">> }}

ValuePhrases == {ValuePhrase(v) : v \in {Absent, PyNone, PyInt(5)}}

Phrases == DayMonthPhrases \cup SlashPhrases \cup IsoPhrases \cup TextPhrases \cup ValuePhrases

\* "today", "10th January", "10th June", a missing key, None
CorePhrases ==
    { TextPhrase(Today),
      DayMonthPhrase(0, <<"1","0">>, <<"t","h">>, <<"J","a","n","u","a","r","y">>, 1, 0),
      DayMonthPhrase(0, <<"1","0">>, <<"t","h">>, <<"J","u","n","e">>, 6, 0),
      ValuePhrase(Absent),
      ValuePhrase(PyNone) }

Mumbai == <<"M","u","m","b","a","i">>
Atlantis == <<"A","t","l","a","n","t","i","s">>

Cities ==
    { PyStr(Mumbai), PyStr(Atlantis), PyStr(DefaultCity),
      PyStr(<<" ","M","U","M","B","A","I"," ">>),
      PyStr(<<"p","u","n","e">>),
      PyStr(<<"N","e","w"," ","D","e","l","h","i">>),
      PyStr(<<>>), PyStr(<<" ", " ">>),
      PyNone, PyInt(5), Absent }

CoreCities == { PyStr(Mumbai), PyStr(Atlantis), PyNone }

IntBudgets ==
    {-3, 0, 100, 1500, 999999}
    \cup ((MIN_BUDGET - BudgetMargin)..(MIN_BUDGET + BudgetMargin))
    \cup ((MAX_BUDGET - BudgetMargin)..(MAX_BUDGET + BudgetMargin))

Budgets ==
    {PyInt(b) : b \in IntBudgets}
    \cup { PyStr(<<"1","5","0","0">>), PyStr(<<" ","7","0","0"," ">>),
           PyStr(<<"-","5">>), PyStr(<<"a","b","c">>), PyStr(<<"1","e","3">>), PyStr(<<>>),
           PyNone, PyList, PyInf, PyNaN,
           PyFloat(15007), PyFloat(4999), PyFloat(500009), PyFloat(-5),
           PyBool(TRUE), Absent }

CoreBudgets == { PyInt(1500), PyInt(100) }

DateTypes ==
    { PyStr(DefaultDateType),
      PyStr(<<"R","o","m","a","n","t","i","c">>),
      PyStr(<<"s","u","r","p","r","i","s","e">>),
      PyStr(<<>>), PyStr(<<" ">>),
      PyNone, Absent }

\* the plan the planner's own fallback returns, with the given four fields
Plan(city, budget, timing, date_type) ==
    [city |-> city, budget |-> budget, timing |-> timing, date_type |-> date_type,
     needs_weather |-> PyBool(TRUE), needs_restaurants |-> PyBool(TRUE),
     special_requirements |-> PyStr(<<"n","o","n","e">>)]

\* values of needs_weather, needs_restaurants, special_requirements and of
\* a key "mood" that the validator knows nothing of (Absent: no such key)
Vegetarian == <<"v","e","g","e","t","a","r","i","a","n">>

OtherKeys ==
    { <<PyBool(FALSE), PyBool(TRUE), PyStr(Vegetarian), Absent>>,
      <<PyNone, PyInt(5), PyNone, PyStr(<<"s","h","y">>)>>,
      <<Absent, Absent, Absent, PyList>> }

\* the plan p with the other keys set to o
WithOtherKeys(p, o) ==
    [k \in DOMAIN p \cup {"mood"} |->
        IF k = "needs_weather" THEN o[1]
        ELSE IF k = "needs_restaurants" THEN o[2]
        ELSE IF k = "special_requirements" THEN o[3]
        ELSE IF k = "mood" THEN o[4]
        ELSE p[k]]

(***************************************************************************)
(* ExecutorAgent.execute (src/agents/executor.py): the restaurant fetch    *)
(* and the weather fetch, each in a try block of its own.  PlacesAPI and   *)
(* WeatherAPI catch their own exceptions: search_restaurants returns a     *)
(* list of at most five restaurants, get_weather_forecast a forecast or    *)
(* None.                                                                   *)
(***************************************************************************)
\* the restaurant lists have at most MaxRestaurants entries
MaxRestaurants == 4

\* the i-th restaurant PlacesAPI found, its rating in tenths
Venue(i) ==
    [name |-> <<"v","e","n","u","e"," ">> \o <<Digits[i + 1]>>,
     rating |-> 40 + i,
     price_level |-> <<"$","$">>,
     address |-> <<Digits[i + 1]>> \o <<" ","m","g"," ","r","o","a","d">>,
     total_ratings |-> 100 * i]

\* what search_restaurants can return
FoundLists == { [i \in 1..n |-> Venue(i)] : n \in 0..MaxRestaurants }

\* what WeatherAPI._parse_forecast builds, the temperature in whole degrees
Forecast(description, temperature, rain_probability, will_rain) ==
    [none |-> FALSE, description |-> description, temperature |-> temperature,
     feels_like |-> temperature + 1, rain_probability |-> rain_probability,
     will_rain |-> will_rain,
     suitable_for_outdoor |-> ~will_rain /\ 15 <= temperature /\ temperature <= 35]

\* weather = None
NoWeather ==
    [none |-> TRUE, description |-> <<>>, temperature |-> 0, feels_like |-> 0,
     rain_probability |-> 0, will_rain |-> FALSE, suitable_for_outdoor |-> FALSE]

\* what get_weather_forecast can return
Forecasts ==
    { NoWeather,
      Forecast(<<"C","l","e","a","r"," ","s","k","y">>, 28, 0, FALSE),
      Forecast(<<"L","i","g","h","t"," ","r","a","i","n">>, 22, 80, TRUE),
      Forecast(<<"H","a","z","e">>, 38, 10, FALSE) }

\* bool(v) of a plan's value
Truthy(v) ==
    CASE v.t = "none" -> FALSE
      [] v.t = "str" -> v.s # <<>>
      [] v.t \in {"bool", "int", "float"} -> v.n # 0
      [] OTHER -> TRUE

\* a value as an f-string shows it
Shown(v) ==
    CASE v.t = "str" -> Val(v.s)
      [] v.t = "int" -> Num(v.n)
      [] v.t = "bool" -> Lit(IF v.n = 1 THEN "True" ELSE "False")
      [] OTHER -> Lit("None")

\* the first of the keys that plan[key] does not find ("": it finds them all)
RECURSIVE MissingKey(_, _)
MissingKey(p, keys) ==
    IF keys = <<>> THEN ""
    ELSE IF p[Head(keys)] = Absent THEN Head(keys)
    ELSE MissingKey(p, Tail(keys))

\* one entry of the log of fetches
Fetch(api, ended, days_ahead) == [api |-> api, ended |-> ended, days_ahead |-> days_ahead]

\* lines 25-30: the results execute starts from, and the log of its fetches
Started(p) ==
    [plan |-> p, restaurants |-> <<>>, weather |-> NoWeather, errors |-> <<>>,
     fetches |-> <<>>]

\* results["errors"].append(error), the fetch logged as raised
Failed(r, api, error) ==
    [r EXCEPT !.errors = Append(@, error),
              !.fetches = Append(@, Fetch(api, "raised", 0))]

\* lines 34-46
FetchRestaurants(p, r, found) ==
    IF MissingKey(p, <<"city", "budget", "date_type">>) # ""
    THEN Failed(r, "restaurants",
                <<Lit("Error fetching restaurants: "),
                  Lit(MissingKey(p, <<"city", "budget", "date_type">>))>>)
    ELSE [r EXCEPT !.restaurants = found,
                   !.errors = IF found = <<>>
                              THEN Append(@, <<Lit("No restaurants found matching criteria")>>)
                              ELSE @,
                   !.fetches = Append(@, Fetch("restaurants", "returned", 0))]

\* line 33
AfterRestaurants(p, r, found) ==
    IF Truthy(Get(p, "needs_restaurants", PyBool(TRUE)))
    THEN FetchRestaurants(p, r, found)
    ELSE r

\* _parse_timing: days ahead, or the AttributeError of timing.lower()
parse_timing(timing) ==
    IF timing.t # "str" THEN [exc |-> "AttributeError", days |-> 0]
    ELSE IF Contains(Lower(timing.s), <<"t","o","d","a","y">>)
            \/ Contains(Lower(timing.s), <<"t","o","n","i","g","h","t">>)
         THEN [exc |-> "", days |-> 0]
    ELSE IF Contains(Lower(timing.s), <<"t","o","m","o","r","r","o","w">>)
         THEN [exc |-> "", days |-> 1]
    ELSE IF Contains(Lower(timing.s), <<"w","e","e","k","e","n","d">>)
         THEN [exc |-> "", days |-> 2]
    ELSE [exc |-> "", days |-> 0]

\* lines 54-61, days_ahead known
FetchForecast(p, r, days_ahead, forecast) ==
    IF p.city = Absent
    THEN Failed(r, "weather", <<Lit("Error fetching weather: "), Lit("city")>>)
    ELSE [r EXCEPT !.weather = forecast,
                   !.errors = IF forecast.none
                              THEN Append(@, <<Lit("Weather data unavailable")>>)
                              ELSE @,
                   !.fetches = Append(@, Fetch("weather", "returned", days_ahead))]

\* lines 50-64
FetchWeather(p, r, days, forecast) ==
    IF days.exc # ""
    THEN Failed(r, "weather", <<Lit("Error fetching weather: "), Lit(days.exc)>>)
    ELSE FetchForecast(p, r, days.days, forecast)

\* AfterWeather with a slip: the weather is not fetched once an error is
\* recorded
AfterWeatherUnlessError(p, r, forecast) ==
    IF Truthy(Get(p, "needs_weather", PyBool(TRUE))) /\ r.errors = <<>>
    THEN FetchWeather(p, r, parse_timing(Get(p, "timing", PyStr(Today))), forecast)
    ELSE r

\* line 49
AfterWeather(p, r, forecast) ==
    IF Truthy(Get(p, "needs_weather", PyBool(TRUE)))
    THEN FetchWeather(p, r, parse_timing(Get(p, "timing", PyStr(Today))), forecast)
    ELSE r

\* execute(plan), the APIs returning found and forecast when they are called
execute(p, found, forecast) ==
    AfterWeather(p, AfterRestaurants(p, Started(p), found), forecast)

(***************************************************************************)
(* VerifierAgent.verify_and_generate_plan (src/agents/verifier.py): the    *)
(* checks, the filter, and the synthesis of the final plan by an LLM call  *)
(* that may raise.  A text is the sequence of its parts, as a message is.  *)
(***************************************************************************)
Indoor == <<"i","n","d","o","o","r">>

\* plan.get("special_requirements", "").lower() raises on a value that is
\* no str
LowerRaises(special_requirements) == special_requirements.t # "str"

\* lines 51-53
RainIssue(p, weather) ==
    IF weather.will_rain
          /\ ~Contains(Lower(Get(p, "special_requirements", PyStr(<<>>)).s), Indoor)
    THEN <<Lit("Rain expected - filtering for indoor venues")>>
    ELSE <<>>

\* lines 55-58
TemperatureIssue(weather) ==
    IF weather.temperature > 35
    THEN <<Lit("Very hot weather - recommend air-conditioned venues")>>
    ELSE IF weather.temperature < 15
    THEN <<Lit("Cold weather - recommend cozy indoor venues")>>
    ELSE <<>>

\* lines 41-58: the validation mapping, or the exception of line 51
Validation(p, restaurants, weather) ==
    IF ~weather.none /\ weather.will_rain
          /\ LowerRaises(Get(p, "special_requirements", PyStr(<<>>)))
    THEN [exc |-> "AttributeError", has_restaurants |-> FALSE, has_weather |-> FALSE,
          budget_satisfied |-> FALSE, weather_suitable |-> FALSE, issues |-> <<>>]
    ELSE [exc |-> "",
          has_restaurants |-> Len(restaurants) > 0,
          has_weather |-> ~weather.none,
          budget_satisfied |-> TRUE,
          weather_suitable |-> weather.none \/ RainIssue(p, weather) = <<>>,
          issues |-> IF weather.none THEN <<>>
                     ELSE RainIssue(p, weather) \o TemperatureIssue(weather)]

\* restaurants[:n]
FirstOf(restaurants, n) ==
    SubSeq(restaurants, 1, IF Len(restaurants) < n THEN Len(restaurants) ELSE n)

\* _filter_restaurants: the list, or the exception of line 98
filter_restaurants(restaurants, weather, special_requirements) ==
    IF restaurants = <<>> THEN [exc |-> "", list |-> <<>>]
    ELSE IF ~weather.none /\ ~weather.will_rain /\ LowerRaises(special_requirements)
    THEN [exc |-> "AttributeError", list |-> <<>>]
    ELSE [exc |-> "", list |-> FirstOf(restaurants, 5)]

\* lines 199-201, for the i-th restaurant listed
RestaurantLines(i, rest) ==
    << Num(i), Lit(". "), Val(rest.name), Lit("\n"),
       Lit("   "), Num(rest.rating), Lit("/5 | "), Val(rest.price_level), Lit("\n"),
       Lit("   "), Val(rest.address), Lit("\n\n") >>

\* the loop of lines 198-201 from the i-th of the restaurants listed
RECURSIVE ListedFrom(_, _)
ListedFrom(listed, i) ==
    IF i > Len(listed) THEN <<>>
    ELSE RestaurantLines(i, listed[i]) \o ListedFrom(listed, i + 1)

\* Listed with a slip: all the restaurants are listed
ListedAll(restaurants) ==
    IF restaurants # <<>> THEN ListedFrom(restaurants, 1)
    ELSE <<Lit("No restaurants found. Try adjusting your budget or location.\n\n")>>

\* lines 197-203
Listed(restaurants) ==
    IF restaurants # <<>> THEN ListedFrom(FirstOf(restaurants, 3), 1)
    ELSE <<Lit("No restaurants found. Try adjusting your budget or location.\n\n")>>

\* lines 189-193
WeatherLines(weather) ==
    IF weather.none THEN <<>>
    ELSE <<Lit("Weather: "), Val(weather.description), Lit(", "),
           Num(weather.temperature), Lit("C\n")>>
         \o (IF weather.will_rain
             THEN <<Lit("Rain expected - indoor venues recommended\n")>>
             ELSE <<>>)
         \o <<Lit("\n")>>

\* a text returned, or an exception raised, by the synthesis
Text(parts) == [exc |-> "", text |-> parts]
NoText(exc) == [exc |-> exc, text |-> <<>>]

\* _generate_simple_plan
generate_simple_plan(p, restaurants, weather) ==
    IF MissingKey(p, <<"city", "budget">>) # "" THEN NoText("KeyError")
    ELSE Text(<<Lit("Date Plan for "), Shown(p.city), Lit("\n\n")>>
              \o WeatherLines(weather)
              \o <<Lit("Top Restaurant Recommendations:\n\n")>>
              \o Listed(restaurants)
              \o <<Lit("Suggested timing: Evening (6-8 PM)\n"),
                   Lit("Budget: "), Shown(p.budget), Lit("\n")>>)

\* the text the LLM replied with
Reply == <<Lit("(the reply of the model)")>>

\* how the LLM call of lines 162-170 can end
Replies == {"returned", "raised"}

\* _generate_final_plan: lines 116-147 read the plan's keys to build the
\* context, lines 161-176 call the LLM and fall back on the simple plan
generate_final_plan(p, restaurants, weather, reply) ==
    IF MissingKey(p, <<"date_type", "city", "budget", "timing">>) # ""
    THEN NoText("KeyError")
    ELSE IF reply = "returned" THEN Text(Reply)
    ELSE generate_simple_plan(p, restaurants, weather)

\* whether the LLM call was reached, and how it ended
LlmCall(p, reply) ==
    IF MissingKey(p, <<"date_type", "city", "budget", "timing">>) # ""
    THEN "not called"
    ELSE reply

\* verify_and_generate_plan raised exc
VerifyRaised(exc) ==
    [raised |-> TRUE, exc |-> exc, issues |-> <<>>, filtered_restaurants |-> <<>>,
     weather_info |-> NoWeather, final_plan |-> <<>>, errors |-> <<>>]

NoVerdict == VerifyRaised("")

\* lines 68-81, the validation and the filtered list known
Synthesised(r, validation, filtered, final) ==
    IF final.exc # "" THEN VerifyRaised(final.exc)
    ELSE [raised |-> FALSE, exc |-> "", issues |-> validation.issues,
          filtered_restaurants |-> filtered, weather_info |-> r.weather,
          final_plan |-> final.text, errors |-> r.errors]

\* lines 61-73, the validation known
Filtered(r, validation, filtered, reply) ==
    IF filtered.exc # "" THEN VerifyRaised(filtered.exc)
    ELSE Synthesised(r, validation, filtered.list,
                     generate_final_plan(r.plan, filtered.list, r.weather, reply))

\* lines 35-65
Validated(r, validation, reply) ==
    IF validation.exc # "" THEN VerifyRaised(validation.exc)
    ELSE Filtered(r, validation,
                  filter_restaurants(r.restaurants, r.weather,
                                     Get(r.plan, "special_requirements", PyStr(<<>>))),
                  reply)

\* verify_and_generate_plan(execution_results), the LLM call ending as reply
verify_and_generate_plan(r, reply) ==
    Validated(r, Validation(r.plan, r.restaurants, r.weather), reply)

\* the LLM call of verify_and_generate_plan(execution_results)
LlmReached(r, validation, filtered, reply) ==
    IF validation.exc # "" \/ filtered.exc # "" THEN "not called"
    ELSE LlmCall(r.plan, reply)

(***************************************************************************)
(* The state machine: a validator is constructed, validate_plan is called  *)
(* on a candidate plan, and then again on the plan it returned.            *)
(***************************************************************************)
\* at most MaxCalls calls are made on the validators of ValidatorIds
MaxCalls == 2
ValidatorIds == {1, 2}

\* no InputValidator constructed yet
NoDate == [y |-> 0, m |-> 0, d |-> 0]

\* the dates the clock passes through
ClockDates == {d \in NowDates : d.y = 2023 \/ (d.y = 2024 /\ d.m = 1)}
FirstClockDate == CHOOSE d \in ClockDates : \A e \in ClockDates \ {d} : DateBefore(d, e)

\* no validator constructed and no call made
NoCalls ==
    /\ clock = FirstClockDate
    /\ validators = [v \in ValidatorIds |-> NoDate]
    /\ calls = {}

\* no pipeline running
NoFlow ==
    /\ entry = "none"
    /\ surfaced = <<>>
    /\ executed = NoPlan

\* the executor and the verifier not run
NoResults ==
    [plan |-> NoPlan, restaurants |-> <<>>, weather |-> NoWeather, errors |-> <<>>]

NoAgents ==
    /\ results = NoResults
    /\ fetches = <<>>
    /\ verdict = NoVerdict
    /\ llm = "not called"

\* validate_plan not called yet
NotCalled ==
    /\ plan = NoPlan
    /\ phrase = ValuePhrase(Absent)
    /\ resolved = StrpFail
    /\ checked = Checked(NotRun, NotRun, NotRun, NotRun)
    /\ caller_plan = NoPlan
    /\ outcome = NoOutcome
    /\ outcome2 = NoOutcome

\* InputValidator(): __init__ captures the current date
Init ==
    /\ current_date \in NowDates
    /\ pc = "idle"
    /\ NoCalls
    /\ NoFlow
    /\ NoAgents
    /\ NotCalled

\* validator.validate_plan(p), p's timing written as ph
Call(p, ph) ==
    /\ plan' = p
    /\ phrase' = ph
    /\ resolved' = ResolvedDate(Get(p, "timing", PyStr(Today)), current_date)
    /\ checked' = Checks(p, current_date)
    /\ outcome' = Outcome(p, checked')
    /\ caller_plan' = AfterCall(p, outcome'.plan)
    /\ pc' = "validated"
    /\ UNCHANGED <<current_date, outcome2, callVars, flowVars, agentVars>>

\* a plan whose timing is any of the phrases
ValidateTiming ==
    /\ pc = "idle"
    /\ \E ph \in Phrases :
          Call(Plan(PyStr(Mumbai), PyInt(1500), ph.value, PyStr(DefaultDateType)), ph)

\* a plan whose city and budget are any of the values
ValidateCityBudget ==
    /\ pc = "idle"
    /\ \E c \in Cities, b \in Budgets :
          Call(Plan(c, b, PyStr(Today), PyStr(DefaultDateType)), TextPhrase(Today))

\* a plan whose date type is any of the values, the other fields right or wrong
ValidateDateType ==
    /\ pc = "idle"
    /\ \E c \in CoreCities, b \in CoreBudgets, ph \in CorePhrases, dt \in DateTypes :
          Call(Plan(c, b, ph.value, dt), ph)

\* a plan whose other keys hold any of the values
ValidateOtherKeys ==
    /\ pc = "idle"
    /\ \E c \in CoreCities, ph \in CorePhrases, o \in OtherKeys :
          Call(WithOtherKeys(Plan(c, PyInt(100), ph.value, PyStr(<<>>)), o), ph)

\* the plan p without the keys of K
WithoutKeys(p, K) == [k \in DOMAIN p |-> IF k \in K THEN Absent ELSE p[k]]

\* a plan that lacks some of the four keys, the others right or wrong
ValidateMissingKeys ==
    /\ pc = "idle"
    /\ \E c \in CoreCities, b \in CoreBudgets, ph \in CorePhrases,
          K \in SUBSET {"city", "budget", "timing", "date_type"} :
          /\ K # {}
          /\ Call(WithoutKeys(Plan(c, b, ph.value, PyStr(DefaultDateType)), K),
                  IF "timing" \in K THEN ValuePhrase(Absent) ELSE ph)

\* validator.validate_plan(corrected_plan), the plan the first call returned
ValidateAgain ==
    /\ pc = "validated"
    /\ ~outcome.raised
    /\ outcome2' = validate_plan(outcome.plan, current_date)
    /\ pc' = "revalidated"
    /\ UNCHANGED <<current_date, plan, phrase, resolved, checked, caller_plan, outcome,
                    callVars, flowVars, agentVars>>

Next ==
    \/ ValidateTiming
    \/ ValidateCityBudget
    \/ ValidateDateType
    \/ ValidateOtherKeys
    \/ ValidateMissingKeys
    \/ ValidateAgain

Spec == Init /\ [][Next]_vars

(***************************************************************************)
(* Several validators: each captures the clock when it is constructed, and *)
(* validate_plan is called on them in any order while the clock goes on.   *)
(***************************************************************************)
TenthJanuary ==
    DayMonthPhrase(0, <<"1","0">>, <<"t","h">>, <<"J","a","n","u","a","r","y">>, 1, 0)
TenthJune ==
    DayMonthPhrase(0, <<"1","0">>, <<"t","h">>, <<"J","u","n","e">>, 6, 0)

\* the plans of these calls
CallPlans ==
    { Plan(PyStr(Mumbai), PyInt(1500), TenthJanuary.value, PyStr(DefaultDateType)),
      Plan(PyStr(Mumbai), PyInt(1500), TenthJune.value, PyStr(DefaultDateType)),
      Plan(PyStr(Atlantis), PyInt(100), TenthJune.value, PyStr(<<>>)),
      Plan(PyStr(Atlantis), PyInt(100), PyStr(Today), PyStr(<<>>)) }

\* DateUsed with a slip: the clock is read again at each call
DateUsedNow(captured, now) == now

\* the date the guardrail compares with: self.current_date, captured by
\* __init__, whatever the clock reads when the call is made
DateUsed(captured, now) == captured

\* the record of a call on validator v, made when the clock read `at`
CallRecord(v, at, p, ch) ==
    [v |-> v, date |-> validators[v], at |-> at, plan |-> p,
     checked |-> ch, outcome |-> Outcome(p, ch)]

InitCalls ==
    /\ current_date = FirstClockDate
    /\ pc = "idle"
    /\ NotCalled
    /\ NoCalls
    /\ NoFlow
    /\ NoAgents

\* the clock goes on to a later date
Tick ==
    /\ \E d \in ClockDates : DateBefore(clock, d) /\ clock' = d
    /\ UNCHANGED <<validators, calls>>

\* validator = InputValidator()
Construct(v) ==
    /\ validators[v] = NoDate
    /\ validators' = [validators EXCEPT ![v] = clock]
    /\ UNCHANGED <<clock, calls>>

\* validator.validate_plan(p) on the validator v
Invoke(v, p) ==
    /\ validators[v] # NoDate
    /\ Cardinality(calls) < MaxCalls
    /\ calls' = calls \cup
                  {CallRecord(v, clock, p, Checks(p, DateUsed(validators[v], clock)))}
    /\ UNCHANGED <<clock, validators>>

NextCalls ==
    /\ \/ Tick
       \/ \E v \in ValidatorIds : Construct(v)
       \/ \E v \in ValidatorIds, p \in CallPlans : Invoke(v, p)
    /\ UNCHANGED <<current_date, pc, plan, phrase, resolved, checked, caller_plan,
                    outcome, outcome2, flowVars, agentVars>>

SpecCalls == InitCalls /\ [][NextCalls]_vars

(***************************************************************************)
(* The pipeline of the two entry points, main() of src/main.py ("cli") and *)
(* the button handler of src/app.py ("web"): the planner extracts a plan,  *)
(* the plan is validated, and the executor is given a plan.                *)
(***************************************************************************)
EntryPoints == {"cli", "web"}

\* what planner.extract_intent can return in the four fields: every key is
\* set, the budget is an int, the others are whatever the JSON held
ExtractedCities == { PyStr(Mumbai), PyStr(Atlantis), PyNone, PyInt(5) }
ExtractedBudgets == { PyInt(1500), PyInt(100) }
BadDayThenSlash == <<"3","2"," ","j","a","n"," ","1","/","1","/","2","0","2","0">>
DayMonthThenSlash == <<"1","0"," ","j","u","n"," ","1","/","1","/","2","0","2","0">>
SlashThenIso ==
    <<"1","/","1","/","2","0","2","0"," ","2","0","3","0","-","0","1","-","0","1">>

ExtractedPhrases ==
    { TextPhrase(Today), TenthJanuary, TenthJune, TextPhrase(<<>>), ValuePhrase(PyNone),
      TextPhrase(BadDayThenSlash), TextPhrase(DayMonthThenSlash), TextPhrase(SlashThenIso) }
ExtractedDateTypes == { PyStr(DefaultDateType), PyStr(<<>>), PyNone }

\* PlanToExecute with a slip: the extracted plan is kept
PlanToExecuteExtracted(is_valid, extracted, corrected_plan) == extracted

\* `if not is_valid: plan = corrected_plan`
PlanToExecute(is_valid, extracted, corrected_plan) ==
    IF ~is_valid THEN corrected_plan ELSE extracted

\* `if not is_valid:` the warning printed, or shown by st.warning
Warning(is_valid, error_msg) == IF ~is_valid THEN error_msg ELSE <<>>

\* the web page shows plan['date_type'].title() and plan['timing'].title(),
\* which raise AttributeError on a value that is no str
DisplayRaises(e, p) ==
    e = "web" /\ (p.date_type.t # "str" \/ p.timing.t # "str")

InitFlow ==
    /\ current_date \in NowDates
    /\ pc = "start"
    /\ NotCalled
    /\ NoCalls
    /\ entry \in EntryPoints
    /\ surfaced = <<>>
    /\ executed = NoPlan
    /\ NoAgents

\* plan = planner.extract_intent(user_prompt)
Extract ==
    /\ pc = "start"
    /\ \E c \in ExtractedCities, b \in ExtractedBudgets,
          ph \in ExtractedPhrases, dt \in ExtractedDateTypes :
          /\ plan' = Plan(c, b, ph.value, dt)
          /\ phrase' = ph
    /\ pc' = "extracted"
    /\ UNCHANGED <<current_date, resolved, checked, caller_plan, outcome, outcome2,
                    callVars, flowVars, agentVars>>

\* validator = InputValidator(); validator.validate_plan(plan)
Validate ==
    /\ pc = "extracted"
    /\ Call(plan, phrase)

\* the rest of the try block when validate_plan returned
Continue ==
    /\ surfaced' = Warning(outcome.valid, outcome.message)
    /\ IF DisplayRaises(entry, PlanToExecute(outcome.valid, plan, outcome.plan))
       THEN pc' = "exited" /\ UNCHANGED executed
       ELSE /\ executed' = PlanToExecute(outcome.valid, plan, outcome.plan)
            /\ pc' = "executing"

\* `except Exception`: sys.exit(1), or st.stop()
Halt ==
    /\ pc' = "exited"
    /\ UNCHANGED <<surfaced, executed>>

\* from the return of validate_plan to executor.execute(plan)
Proceed ==
    /\ pc = "validated"
    /\ IF outcome.raised THEN Halt ELSE Continue
    /\ UNCHANGED <<current_date, plan, phrase, resolved, checked, caller_plan,
                    outcome, outcome2, callVars, entry, agentVars>>

NextFlow ==
    \/ Extract
    \/ Validate
    \/ Proceed

SpecFlow == InitFlow /\ [][NextFlow]_vars


(***************************************************************************)
(* The two agents after validation: executor.execute(plan), then           *)
(* verifier.verify_and_generate_plan(execution_results).                   *)
(***************************************************************************)
ThisWeekend == <<"t","h","i","s"," ","w","e","e","k","e","n","d">>
IndoorSeating == <<"i","n","d","o","o","r"," ","s","e","a","t","i","n","g">>

\* values of needs_restaurants and needs_weather
Flags == { PyBool(TRUE), PyBool(FALSE), PyNone, Absent }

\* the plan mappings execute is given
AgentPlans ==
    { [Plan(c, PyInt(1500), t, dt)
          EXCEPT !.needs_restaurants = nr, !.needs_weather = nw,
                 !.special_requirements = sr] :
        c \in {PyStr(Mumbai), Absent},
        dt \in {PyStr(DefaultDateType), Absent},
        t \in {PyStr(Today), PyStr(ThisWeekend), PyNone},
        nr \in Flags, nw \in Flags,
        sr \in {PyStr(<<"n","o","n","e">>), PyStr(IndoorSeating), PyNone} }

InitAgents ==
    /\ current_date = FirstClockDate
    /\ pc = "executing"
    /\ NotCalled
    /\ NoCalls
    /\ entry = "none"
    /\ surfaced = <<>>
    /\ executed \in AgentPlans
    /\ NoAgents

\* execution_results = executor.execute(plan), r its results and its log
Executed(r) ==
    /\ results' = [plan |-> r.plan, restaurants |-> r.restaurants,
                   weather |-> r.weather, errors |-> r.errors]
    /\ fetches' = r.fetches

Execute ==
    /\ pc = "executing"
    /\ \E found \in FoundLists, forecast \in Forecasts :
          Executed(execute(executed, found, forecast))
    /\ pc' = "executed"
    /\ UNCHANGED <<current_date, plan, phrase, resolved, checked, caller_plan,
                    outcome, outcome2, callVars, flowVars, verdict, llm>>

\* final_result = verifier.verify_and_generate_plan(execution_results)
Verify ==
    /\ pc = "executed"
    /\ \E reply \in Replies :
          /\ verdict' = verify_and_generate_plan(results, reply)
          /\ llm' = LlmReached(results,
                               Validation(results.plan, results.restaurants,
                                          results.weather),
                               filter_restaurants(results.restaurants, results.weather,
                                                  Get(results.plan, "special_requirements",
                                                      PyStr(<<>>))),
                               reply)
    /\ pc' = "verified"
    /\ UNCHANGED <<current_date, plan, phrase, resolved, checked, caller_plan,
                    outcome, outcome2, callVars, flowVars, results, fetches>>

NextAgents ==
    \/ Execute
    \/ Verify

SpecAgents == InitAgents /\ [][NextAgents]_vars

(***************************************************************************)
(* Vocabulary of the properties                                            *)
(***************************************************************************)
\* validate_plan has been called on plan, and outcome is what came of it
Called == pc \in {"validated", "revalidated"}

\* validate_plan returned (it did not raise)
HasReturned == Called /\ ~outcome.raised

\* validate_plan(plan) has just returned, and nothing was done since
JustReturned == pc = "validated" /\ ~outcome.raised

FourFields == {"city", "budget", "timing", "date_type"}

\* the notes of a message, one per invalid field: note is one of them when it
\* stands in the message between separators
HasNote(message, note) ==
    \E i \in 1..Len(message) :
        /\ i + Len(note) - 1 <= Len(message)
        /\ SubSeq(message, i, i + Len(note) - 1) = note
        /\ (i = 1 \/ message[i - 1] = Lit(" | "))
        /\ (i + Len(note) - 1 = Len(message) \/ message[i + Len(note)] = Lit(" | "))

\* how many notes a message carries
NoteCount(message) ==
    IF message = <<>> THEN 0
    ELSE 1 + Cardinality({i \in 1..Len(message) : message[i] = Lit(" | ")})

PastNote(timing) ==
    <<Lit("Date '"), Val(timing.s), Lit("' is in the past. Please choose a future date.")>>
AdjustedNote(date) ==
    <<Lit("Date adjusted to "), Val(StrfMonthDayYear(date)), Lit(" (next year)")>>
TooLowNote ==
    <<Lit("Budget too low (minimum "), Num(500), Lit("). Adjusted to "), Num(500), Lit(".")>>
TooHighNote ==
    <<Lit("Budget too high (maximum "), Num(50000), Lit("). Adjusted to "), Num(50000), Lit(".")>>
InvalidBudgetNote == <<Lit("Invalid budget. Using default 2000.")>>
CityMissingNote == <<Lit("City not specified")>>
CityRejectedNote(city) ==
    <<Lit("City '"), Val(city), Lit("' not supported. Using Bangalore instead.")>>

\* the date that plan's timing phrase names: the year it states, or else the
\* current year
NamedDate == [y |-> IF phrase.y = 0 THEN current_date.y ELSE phrase.y,
              m |-> phrase.m, d |-> phrase.d]

\* plan's timing names an absolute calendar date
NamesDate ==
    /\ phrase.shape \in {"day_month", "slash", "iso"}
    /\ ValidDate(NamedDate.y, NamedDate.m, NamedDate.d)

\* the resolved date r is in the past
IsPast(r) == r.ok /\ DateBefore(r, current_date)

(***************************************************************************)
(* C1 - validate_plan never raises                                         *)
(***************************************************************************)
\* C1: for every candidate plan, also one with a field missing, empty, None
\* or of the wrong type, validate_plan returns an outcome and never raises.
C1_NeverRaises == Called => ~outcome.raised

(***************************************************************************)
(* C2 - the corrected plan is fully populated                              *)
(***************************************************************************)
\* C2: in every corrected plan that validate_plan returns, city is a
\* non-empty str whose trimmed lower-case form is a supported city, budget
\* is an int within 500..50000, and timing and date_type are non-empty strs.
C2_FullyPopulated ==
    HasReturned =>
        /\ outcome.plan.city.t = "str"
        /\ outcome.plan.city.s # <<>>
        /\ Strip(Lower(outcome.plan.city.s)) \in SUPPORTED_CITIES
        /\ outcome.plan.budget.t = "int"
        /\ outcome.plan.budget.n >= 500
        /\ outcome.plan.budget.n <= 50000
        /\ outcome.plan.timing.t = "str"
        /\ outcome.plan.timing.s # <<>>
        /\ outcome.plan.date_type.t = "str"
        /\ outcome.plan.date_type.s # <<>>

(***************************************************************************)
(* C3 - no past date gets through the timing guardrail                     *)
(***************************************************************************)
\* C3: when the timing names an absolute calendar date, the corrected timing
\* is the original phrase and the date it names is not before the current
\* date, or it is that day and month rolled forward to next year, or it is
\* "today"; it is never the original phrase naming a date before the
\* current date.
C3_NoPastDate ==
    (HasReturned /\ NamesDate) =>
        \/ outcome.plan.timing = plan.timing /\ ~DateBefore(NamedDate, current_date)
        \/ outcome.plan.timing = PyStr(StrfMonthDay(NamedDate))
        \/ outcome.plan.timing = PyStr(Today)

(***************************************************************************)
(* C4 - idempotence                                                        *)
(***************************************************************************)
\* C4: validating the corrected plan of a first validation again, on the same
\* current date, returns all_valid = true, an empty message and a corrected
\* plan equal to it in every field.
C4_Idempotent ==
    pc = "revalidated" =>
        /\ ~outcome2.raised
        /\ outcome2.valid
        /\ outcome2.message = <<>>
        /\ outcome2.plan = outcome.plan

\* a second validation of a plan that the first validation corrected in all
\* four fields
C4_Witness ==
    /\ pc = "revalidated"
    /\ \A f \in FourFields : outcome.plan[f] # plan[f]

(***************************************************************************)
(* C5 - every correction is flagged                                        *)
(***************************************************************************)
\* a field of the input that the corrected plan changed: the key was given
\* and its value differs, a budget counting as unchanged when it is the int
\* the given value converts to
Changed(f) ==
    /\ plan[f] # Absent
    /\ outcome.plan[f] # plan[f]
    /\ ~(f = "budget" /\ IntOf(plan[f]).exc = "" /\ outcome.plan[f] = PyInt(IntOf(plan[f]).n))

\* C5: whenever the corrected plan differs from the input plan in city,
\* budget, timing or date_type, all_valid is false and the message carries a
\* note for each field that was changed.
C5_CorrectionFlagged ==
    (HasReturned /\ \E f \in FourFields : Changed(f)) =>
        /\ ~outcome.valid
        /\ NoteCount(outcome.message) >= Cardinality({f \in FourFields : Changed(f)})

(***************************************************************************)
(* C6 - a past date whose month is not earlier is rejected                 *)
(***************************************************************************)
\* the statement of C6 for the resolved date r
PastRejected(r) ==
    (HasReturned /\ IsPast(r) /\ r.m >= current_date.m) =>
        /\ ~outcome.valid
        /\ outcome.plan.timing = PyStr(Today)
        /\ HasNote(outcome.message, PastNote(plan.timing))

\* C6: when the date resolved from the timing is before the current date and
\* its month is not earlier than the current month, whatever the days are,
\* the timing is invalid, the corrected timing is exactly "today" and the
\* message says that the original phrase is in the past.
C6_PastRejected == PastRejected(resolved)

RejectedOnMonthAlone(r) ==
    /\ HasReturned
    /\ IsPast(r)
    /\ r.m > current_date.m
    /\ r.d > current_date.d
    /\ outcome.plan.timing = PyStr(Today)

\* a rejected date of an earlier year whose month and day are both later than
\* the current ones: the month alone decided
C6_Witness == RejectedOnMonthAlone(resolved)

(***************************************************************************)
(* C7 - the next-year rollover is reported                                 *)
(***************************************************************************)
\* the statement of C7 for the resolved date r
RolloverReported(r) ==
    (HasReturned /\ IsPast(r) /\ r.m < current_date.m) =>
        /\ outcome.plan.timing = PyStr(StrfMonthDay(r))
        /\ HasNote(outcome.message, AdjustedNote([r EXCEPT !.y = current_date.y + 1]))

\* C7: when the date resolved from the timing is before the current date and
\* its month is earlier than the current month, the timing is accepted, the
\* corrected timing names the resolved day and month, and the outcome of
\* validate_plan carries a message noting the adjusted year and date.
C7_RolloverReported == RolloverReported(resolved)

(***************************************************************************)
(* C8 - budget clamping                                                    *)
(***************************************************************************)
Clamp(b) == IF b < 500 THEN 500 ELSE IF b > 50000 THEN 50000 ELSE b

BudgetNotes == {TooLowNote, TooHighNote, InvalidBudgetNote}

\* C8: for every int budget b the corrected budget is max(500, min(50000, b));
\* the budget has no note exactly when 500 <= b <= 50000, and otherwise the
\* note names the bound that was violated and all_valid is false.
C8_BudgetClamped ==
    (HasReturned /\ plan.budget.t = "int") =>
        /\ outcome.plan.budget = PyInt(Clamp(plan.budget.n))
        /\ (plan.budget.n >= 500 /\ plan.budget.n <= 50000)
              <=> (\A note \in BudgetNotes : ~HasNote(outcome.message, note))
        /\ plan.budget.n < 500 => (~outcome.valid /\ HasNote(outcome.message, TooLowNote))
        /\ plan.budget.n > 50000 => (~outcome.valid /\ HasNote(outcome.message, TooHighNote))

\* a budget on the lower bound that passed unchanged in an all-valid outcome
C8_Witness ==
    /\ HasReturned
    /\ plan.budget = PyInt(500)
    /\ outcome.valid
    /\ outcome.plan.budget = PyInt(500)

(***************************************************************************)
(* C9 - a budget that is no integer                                        *)
(***************************************************************************)
\* a str that int() does not accept
NotAnIntLiteral(s) ==
    \/ Strip(s) = <<>>
    \/ \E i \in 1..Len(Strip(s)) :
          ~IsDigit(Strip(s)[i]) /\ ~(i = 1 /\ Strip(s)[i] \in {"+", "-"})
    \/ Strip(s) \in {<<"+">>, <<"-">>}

\* the budget given cannot be converted to an integer
NotCoercible(v) ==
    \/ v.t \in {"none", "list", "nan", "inf"}
    \/ v.t = "str" /\ NotAnIntLiteral(v.s)

\* the other three fields are strs, or their keys are missing
OthersAreStrings ==
    \A f \in {"city", "timing", "date_type"} : plan[f].t \in {"str", "absent"}

\* C9: every budget that cannot be converted to an integer yields the
\* corrected budget 2000, the note "Invalid budget" and all_valid = false; the
\* call never raises and never clamps.
C9_InvalidBudgetDefaults ==
    (Called /\ OthersAreStrings /\ NotCoercible(plan.budget)) =>
        /\ ~outcome.raised
        /\ outcome.plan.budget = PyInt(2000)
        /\ ~outcome.valid
        /\ HasNote(outcome.message, InvalidBudgetNote)

(***************************************************************************)
(* C10 - city validation                                                   *)
(***************************************************************************)
CityNotes(city) == {CityMissingNote, CityRejectedNote(city)}

\* C10: a city that is empty once trimmed yields "Bangalore" and the note
\* "City not specified"; another city whose trimmed lower-case form is not
\* supported yields "Bangalore" and a note that holds the rejected value; a
\* supported city is returned exactly as given, with no note.
C10_CityValidated ==
    (HasReturned /\ plan.city.t = "str") =>
        LET given == plan.city.s
            norm  == Strip(Lower(plan.city.s))
        IN  /\ norm = <<>> =>
                  /\ outcome.plan.city = PyStr(<<"B","a","n","g","a","l","o","r","e">>)
                  /\ HasNote(outcome.message, CityMissingNote)
            /\ (norm # <<>> /\ norm \notin SUPPORTED_CITIES) =>
                  /\ outcome.plan.city = PyStr(<<"B","a","n","g","a","l","o","r","e">>)
                  /\ HasNote(outcome.message, CityRejectedNote(given))
            /\ norm \in SUPPORTED_CITIES =>
                  /\ outcome.plan.city = PyStr(given)
                  /\ \A note \in CityNotes(given) : ~HasNote(outcome.message, note)

\* a supported city written with blanks and capitals, returned as it was given
C10_Witness ==
    /\ HasReturned
    /\ plan.city.t = "str"
    /\ Strip(Lower(plan.city.s)) \in SUPPORTED_CITIES
    /\ Strip(Lower(plan.city.s)) # plan.city.s
    /\ outcome.plan.city = plan.city

(***************************************************************************)
(* C11 - a date on or after the current date is accepted                   *)
(***************************************************************************)
\* the statement of C11 for the resolved date r
AcceptedUnchanged(r) ==
    (HasReturned /\ r.ok /\ ~DateBefore(r, current_date)) =>
        /\ checked.timing = Returns(TRUE, <<>>, plan.timing)
        /\ outcome.plan.timing = plan.timing
        /\ ~HasNote(outcome.message, PastNote(plan.timing))

\* C11: when the date resolved from the timing is the current date or a
\* later one, the timing is valid, has no message, and is returned as the
\* original string.
C11_FutureAccepted == AcceptedUnchanged(resolved)

AcceptedToday(r) ==
    /\ HasReturned
    /\ r.ok
    /\ r.y = current_date.y /\ r.m = current_date.m /\ r.d = current_date.d
    /\ outcome.valid
    /\ outcome.plan.timing = plan.timing

\* a timing that names the current date itself, accepted unchanged
C11_Witness == AcceptedToday(resolved)

(***************************************************************************)
(* C12 - relative keywords                                                 *)
(***************************************************************************)
\* w, trimmed and in lower case, is today, tonight, this evening or
\* tomorrow, or holds "weekend" or "this week"
KeywordForm(w) ==
    \/ w \in { <<"t","o","d","a","y">>, <<"t","o","n","i","g","h","t">>,
               <<"t","h","i","s"," ","e","v","e","n","i","n","g">>,
               <<"t","o","m","o","r","r","o","w">> }
    \/ Contains(w, <<"w","e","e","k","e","n","d">>)
    \/ Contains(w, <<"t","h","i","s"," ","w","e","e","k">>)

IsRelativeKeyword(v) == v.t = "str" /\ KeywordForm(Strip(Lower(v.s)))

NextWeekendTenthJan ==
    <<"n","e","x","t"," ","w","e","e","k","e","n","d"," ","1","0","t","h"," ","j","a","n">>

\* C12: a timing that is a relative keyword is valid, has no message and is
\* returned unchanged on every current date, and no date is parsed from it,
\* even when the phrase also holds an absolute date that is past.
C12_KeywordsAccepted ==
    (HasReturned /\ IsRelativeKeyword(plan.timing)) =>
        /\ checked.timing = Returns(TRUE, <<>>, plan.timing)
        /\ outcome.plan.timing = plan.timing
        /\ ~resolved.ok

\* "next weekend 10th jan" accepted unchanged after the 10th of January
C12_Witness ==
    /\ HasReturned
    /\ plan.timing = PyStr(NextWeekendTenthJan)
    /\ current_date.m > 1
    /\ outcome.valid
    /\ outcome.plan.timing = plan.timing

(***************************************************************************)
(* C13 - fail-open                                                         *)
(***************************************************************************)
\* none of the four patterns matches anywhere in w
MatchesNoPattern(w) ==
    \A k \in 1..Len(date_patterns) : Search(date_patterns[k].re, w).start = 0

NextWeek == <<"n","e","x","t"," ","w","e","e","k">>

\* C13: a timing str that is no relative keyword and that none of the four
\* date patterns matches is valid, has no message and is returned unchanged,
\* on every current date.
C13_FailOpen ==
    (/\ JustReturned
     /\ plan.timing.t = "str"
     /\ ~IsRelativeKeyword(plan.timing)
     /\ MatchesNoPattern(Strip(Lower(plan.timing.s)))) =>
        /\ checked.timing = Returns(TRUE, <<>>, plan.timing)
        /\ outcome.plan.timing = plan.timing

\* "next week", which no pattern matches, accepted unchanged
C13_Witness ==
    /\ HasReturned
    /\ plan.timing = PyStr(NextWeek)
    /\ ~IsRelativeKeyword(plan.timing)
    /\ MatchesNoPattern(NextWeek)
    /\ outcome.valid
    /\ outcome.plan.timing = plan.timing

(***************************************************************************)
(* C14 - date-type validation                                              *)
(***************************************************************************)
DateTypeMissingNote == <<Lit("Date type not specified. Using 'casual'.")>>

Casual == <<"c","a","s","u","a","l">>
Surprise == <<"s","u","r","p","r","i","s","e">>

FieldOrder == <<"city", "budget", "timing", "date_type">>

\* the notes of the invalid fields among the fields i, i+1, ... of the
\* order, each followed by the separator when another one comes after it
RECURSIVE NotesFrom(_)
NotesFrom(i) ==
    IF i > Len(FieldOrder) THEN <<>>
    ELSE IF checked[FieldOrder[i]].valid THEN NotesFrom(i + 1)
    ELSE IF NotesFrom(i + 1) = <<>> THEN checked[FieldOrder[i]].msg
    ELSE checked[FieldOrder[i]].msg \o <<Lit(" | ")>> \o NotesFrom(i + 1)

\* each field validator's result is what it returns for the value of its
\* own key alone
OwnValueOnly ==
    /\ checked.city = validate_city(Get(plan, "city", PyStr(<<>>)))
    /\ checked.budget = validate_budget(Get(plan, "budget", PyInt(0)))
    /\ checked.timing = validate_date_time(Get(plan, "timing", PyStr(Today)), current_date)
    /\ checked.date_type = validate_date_type(Get(plan, "date_type", PyStr(<<>>)))

\* C15: all_valid is the conjunction of the four field validities; the
\* message is the notes of exactly the invalid fields, in the order city,
\* budget, timing, date_type, joined by " | "; it is empty exactly when
\* all_valid is true; and the result of each field depends on no other field.
C15_ResultAssembled ==
    JustReturned =>
        /\ outcome.valid <=> (\A f \in FourFields : checked[f].valid)
        /\ outcome.message = NotesFrom(1)
        /\ (outcome.message = <<>>) <=> outcome.valid
        /\ OwnValueOnly

\* a call in which all four fields were invalid: four notes in the message
C15_Witness ==
    /\ HasReturned
    /\ \A f \in FourFields : ~checked[f].valid
    /\ NoteCount(outcome.message) = 4

(***************************************************************************)
(* C16 - frame                                                             *)
(***************************************************************************)
\* C16: validate_plan leaves the mapping it is given as it was, and every
\* key of the corrected plan other than city, budget, timing and date_type
\* has the value it had in the input, whatever that value is.
C16_Frame ==
    /\ Called => caller_plan = plan
    /\ HasReturned =>
          /\ DOMAIN outcome.plan = DOMAIN plan
          /\ \A k \in DOMAIN plan \ FourFields : outcome.plan[k] = plan[k]

\* a call that corrected city, budget and date_type of a plan whose other
\* keys hold None, a number and a key of its own
C16_Witness ==
    /\ HasReturned
    /\ "mood" \in DOMAIN plan
    /\ plan.needs_weather = PyNone
    /\ plan.needs_restaurants = PyInt(5)
    /\ \A f \in {"city", "budget", "date_type"} : outcome.plan[f] # plan[f]
    /\ caller_plan = plan

C18_CallerUsesCorrected ==
    (pc = "executing" /\ ~outcome.valid) =>
        /\ entry \in EntryPoints
        /\ surfaced = outcome.message
        /\ surfaced # <<>>
        /\ executed = outcome.plan

\* the web page going on to the executor with a plan that validation
\* changed
C18_Witness ==
    /\ pc = "executing"
    /\ entry = "web"
    /\ ~outcome.valid
    /\ outcome.plan # plan
    /\ executed = outcome.plan

(***************************************************************************)
(* C19 - validation never halts the pipeline                               *)
(***************************************************************************)
\* C19: once the planner has returned a plan, the pipeline goes on to the
\* executor whatever the four fields hold; validation never makes it exit.
C19_NeverHalts == pc # "exited"

(***************************************************************************)
(* C20 - the year of the rollover                                          *)
(***************************************************************************)
\* the timing validator returned by the rollover: valid, with a message
RolledOver == checked.timing.exc = "" /\ checked.timing.valid /\ checked.timing.msg # <<>>

\* when the rollover applies to the resolved date r, the adjusted date is
\* the day and month of r in the year y
RolledOverTo(r, y) ==
    RolledOver =>
        /\ r.ok
        /\ checked.timing.msg = AdjustedNote([y |-> y, m |-> r.m, d |-> r.d])
        /\ checked.timing.value = PyStr(StrfMonthDay(r))

\* C20, as stated: when the rollover applies, the adjusted date has the day
\* and month of the resolved date and a year one greater than the resolved
\* date's year.
C20_YearAfterResolved == RolledOverTo(resolved, resolved.y + 1)

\* C20, amended: when the rollover applies, the adjusted date has the day
\* and month of the resolved date and the year after the current year,
\* whatever year the phrase states.
C20_YearAfterCurrent == RolledOverTo(resolved, current_date.y + 1)

\* a rollover of a date whose stated year is before the current year
C20_Witness ==
    /\ RolledOver
    /\ resolved.ok
    /\ resolved.y < current_date.y
    /\ phrase.shape \in {"slash", "iso"}

(***************************************************************************)
(* C21 - the year a phrase is resolved to                                  *)
(***************************************************************************)
\* C21: a phrase from which a date is extracted is resolved to the current
\* year exactly when it states no year; a phrase that states a year, in any
\* of the four shapes, is compared with the current date in the stated year.
C21_StatedYearUsed ==
    (Called /\ resolved.ok /\ phrase.shape \in {"day_month", "slash", "iso"}) =>
        /\ phrase.y = 0 => resolved.y = current_date.y
        /\ phrase.y # 0 => resolved.y = phrase.y

(***************************************************************************)
(* C22 - pattern priority                                                  *)
(***************************************************************************)
\* the timing of plan, trimmed and in lower case
TimingLower == Strip(Lower(plan.timing.s))

\* pattern k matches somewhere in the timing
Matches(k) == Search(date_patterns[k].re, TimingLower).start # 0

\* what the try block makes of the match of pattern k
Tried(k) ==
    TryPattern(plan.timing, TimingLower, current_date, k,
               Search(date_patterns[k].re, TimingLower))

\* pattern k matches and its match is judged: no ValueError
Settles(k) == Matches(k) /\ Tried(k).exc = ""

\* the outcome when pattern k is the only one consulted
Alone(k) == IF Tried(k).exc = "" THEN Tried(k) ELSE Returns(TRUE, <<>>, plan.timing)

\* the timing is a str and no relative keyword, so that the patterns are tried
PatternsTried == JustReturned /\ plan.timing.t = "str" /\ ~IsRelativeKeyword(plan.timing)

\* C22, as stated: the first pattern, in the order abbreviated month, full
\* month, DD/MM/YYYY, YYYY-MM-DD, that matches the timing determines the
\* outcome alone; no later pattern is consulted once an earlier one matched.
C22_FirstMatchDecides ==
    PatternsTried =>
        \A k \in 1..Len(date_patterns) :
            (Matches(k) /\ \A j \in 1..(k - 1) : ~Matches(j)) =>
                checked.timing = Alone(k)

\* C22, amended: the first pattern in that order whose match is judged
\* without a ValueError determines the outcome; a pattern whose match raises
\* ValueError is skipped and the later ones are consulted; when none is
\* left the timing is accepted unchanged.
C22_FirstSettledDecides ==
    PatternsTried =>
        /\ \A k \in 1..Len(date_patterns) :
              (Settles(k) /\ \A j \in 1..(k - 1) : ~Settles(j)) =>
                  checked.timing = Tried(k)
        /\ (\A k \in 1..Len(date_patterns) : ~Settles(k)) =>
                  checked.timing = Returns(TRUE, <<>>, plan.timing)

\* "32 jan 1/1/2020": the first pattern matches "32 jan", which is no date,
\* and the third pattern decided
C22_Witness ==
    /\ PatternsTried
    /\ plan.timing = PyStr(BadDayThenSlash)
    /\ Matches(1)
    /\ ~Settles(1)
    /\ Settles(3)
    /\ checked.timing = Tried(3)
    /\ checked.timing.value # plan.timing

(***************************************************************************)
(* C23 - one current date for the whole call                               *)
(***************************************************************************)
\* the 10th of the month that the timing of the call a names, in the year
\* of the date that a's validator captured
TenthOf(a) ==
    [y |-> a.date.y, m |-> IF a.plan.timing = TenthJanuary.value THEN 1 ELSE 6, d |-> 10]

\* the call a tested the past, compared the months and chose the rollover
\* year all by the date its validator captured
JudgedByCaptured(a) ==
    IF ~DateBefore(TenthOf(a), a.date)
    THEN a.checked.timing = Returns(TRUE, <<>>, a.plan.timing)
    ELSE IF TenthOf(a).m < a.date.m
    THEN /\ a.checked.timing.valid
         /\ a.checked.timing.msg = AdjustedNote([TenthOf(a) EXCEPT !.y = a.date.y + 1])
         /\ a.checked.timing.value = PyStr(StrfMonthDay(TenthOf(a)))
    ELSE a.checked.timing = Returns(FALSE, PastNote(a.plan.timing), PyStr(Today))

\* C23: within a call the past-date test, the month comparison and the
\* rollover year all use the one date captured when the validator was
\* constructed; the clock going on between construction and call changes
\* none of them, and the calls on one validator all use the same date.
C23_OneCurrentDate ==
    \A a \in calls :
        /\ a.plan.timing \in {TenthJanuary.value, TenthJune.value} => JudgedByCaptured(a)
        /\ \A b \in calls : a.v = b.v => a.date = b.date

\* "10th June" rejected by a validator constructed on 15 June, in a call
\* made when the clock read December or the January after
C23_Witness ==
    \E a \in calls :
        /\ a.plan.timing = TenthJune.value
        /\ a.date.m = 6
        /\ a.at.m # 6
        /\ a.checked.timing = Returns(FALSE, PastNote(a.plan.timing), PyStr(Today))

(***************************************************************************)
(* C24  Plan synthesis fallback.  When the LLM call of plan synthesis      *)
(* raises, verify_and_generate_plan still returns, and its final_plan is   *)
(* the text plan built from the execution results: it opens with the       *)
(* plan's city and closes with the plan's budget, it has the weather line  *)
(* exactly when there is a forecast, with the forecast's description and   *)
(* temperature, and the restaurants it names are the first three of the    *)
(* results, or all of them when there are fewer, in their order.           *)
(***************************************************************************)
Returned24 == pc = "verified" /\ llm = "raised"

\* the part names one of the restaurants of the results
NamesVenue(part) ==
    \E i \in 1..Len(results.restaurants) : part = Val(results.restaurants[i].name)

AtMostThree(n) == IF n < 3 THEN n ELSE 3

WeatherLineAt(text, i) ==
    /\ text[i] = Lit("Weather: ")
    /\ text[i + 1] = Val(results.weather.description)
    /\ text[i + 3] = Num(results.weather.temperature)

IsFallbackText(text) ==
    /\ Len(text) >= 5
    /\ SubSeq(text, 1, 2) = <<Lit("Date Plan for "), Shown(results.plan.city)>>
    /\ SubSeq(text, Len(text) - 2, Len(text))
          = <<Lit("Budget: "), Shown(results.plan.budget), Lit("\n")>>
    /\ (\E i \in 1..Len(text) : text[i] = Lit("Weather: ")) <=> ~results.weather.none
    /\ ~results.weather.none => \E i \in 1..(Len(text) - 3) : WeatherLineAt(text, i)
    /\ SelectSeq(text, NamesVenue)
          = [i \in 1..AtMostThree(Len(results.restaurants)) |->
                Val(results.restaurants[i].name)]

C24_FallbackPlan ==
    Returned24 => ~verdict.raised /\ IsFallbackText(verdict.final_plan)

\* the LLM call raised with a forecast and four restaurants in the results
C24_Witness ==
    /\ Returned24
    /\ ~verdict.raised
    /\ ~results.weather.none
    /\ Len(results.restaurants) > 3
    /\ verdict.final_plan # Reply

(***************************************************************************)
(* C27  Executor fault isolation.  execute returns results for the plan it *)
(* was given.  A fetch that raised left an entry in errors, and the other  *)
(* fetch still ran when its flag was true or missing; a fetch ran only     *)
(* with its flag other than False; and a fetch that was skipped or that    *)
(* raised left restaurants = [] or weather = None.                         *)
(***************************************************************************)
HasExecuted == pc \in {"executed", "verified"}

Ran(api) == \E i \in 1..Len(fetches) : fetches[i].api = api

RaisedIn(api) ==
    \E i \in 1..Len(fetches) : fetches[i].api = api /\ fetches[i].ended = "raised"

\* errors has an entry that starts with the text
ErrorStarting(text) ==
    \E i \in 1..Len(results.errors) : results.errors[i][1] = Lit(text)

\* the flag is True, or the key is missing
Wanted(flag) == flag \in {PyBool(TRUE), Absent}

C27_FaultIsolation ==
    HasExecuted =>
        /\ results.plan = executed
        /\ RaisedIn("restaurants") =>
              /\ ErrorStarting("Error fetching restaurants: ")
              /\ Wanted(executed.needs_weather) => Ran("weather")
        /\ RaisedIn("weather") =>
              /\ ErrorStarting("Error fetching weather: ")
              /\ Wanted(executed.needs_restaurants) => Ran("restaurants")
        /\ Ran("restaurants") => executed.needs_restaurants # PyBool(FALSE)
        /\ Ran("weather") => executed.needs_weather # PyBool(FALSE)
        /\ (~Ran("restaurants") \/ RaisedIn("restaurants")) => results.restaurants = <<>>
        /\ (~Ran("weather") \/ RaisedIn("weather")) => results.weather = NoWeather

\* the restaurant fetch raised and the weather fetch went on to return a
\* forecast
C27_Witness ==
    /\ HasExecuted
    /\ RaisedIn("restaurants")
    /\ Ran("weather")
    /\ ~results.weather.none
    /\ Len(results.errors) = 1

(***************************************************************************)
(* C25  Executed plan equals validated plan.  In both entry points the     *)
(* plan given to ExecutorAgent.execute has the city, budget, timing and    *)
(* date_type of the corrected plan that validate_plan returned.            *)
(***************************************************************************)
C25_ExecutesCorrected ==
    pc = "executing" => \A f \in FourFields : executed[f] = outcome.plan[f]

(***************************************************************************)
(* C26  Missing keys.  A plan that lacks some of the four keys is          *)
(* validated exactly as the plan with city "", budget 0, timing "today"    *)
(* and date_type "" in their place; the plan with none of the four keys    *)
(* comes back with city "Bangalore", budget 500, timing "today" and        *)
(* date_type "casual", all_valid false, and exactly three notes: one for   *)
(* the city, one for the budget, one for the date type, none for timing.   *)
(***************************************************************************)
MissingKeys == {f \in FourFields : plan[f] = Absent}

\* the value the claim puts in place of a missing key
InPlaceOf(f) ==
    CASE f = "city" -> PyStr(<<>>)
      [] f = "budget" -> PyInt(0)
      [] f = "timing" -> PyStr(Today)
      [] f = "date_type" -> PyStr(<<>>)

\* the plan with the missing keys filled in
FilledIn == [k \in DOMAIN plan |-> IF k \in MissingKeys THEN InPlaceOf(k) ELSE plan[k]]

\* the outcome but for the keys the plan lacks and the validator leaves alone
SameOutcome(a, b) ==
    /\ a.raised = b.raised
    /\ a.exc = b.exc
    /\ a.valid = b.valid
    /\ a.message = b.message
    /\ \A f \in FourFields : a.plan[f] = b.plan[f]

NoneOfFour ==
    /\ ~outcome.raised
    /\ ~outcome.valid
    /\ outcome.plan.city = PyStr(DefaultCity)
    /\ outcome.plan.budget = PyInt(500)
    /\ outcome.plan.timing = PyStr(Today)
    /\ outcome.plan.date_type = PyStr(<<"c","a","s","u","a","l">>)
    /\ outcome.message = Join(<<CityMissingNote, TooLowNote, DateTypeMissingNote>>)

C26_MissingKeys ==
    (pc = "validated" /\ MissingKeys # {}) =>
        /\ SameOutcome(outcome, validate_plan(FilledIn, current_date))
        /\ MissingKeys = FourFields => NoneOfFour

\* validate_plan returned for a plan with none of the four keys
C26_Witness ==
    /\ pc = "validated"
    /\ MissingKeys = FourFields
    /\ ~outcome.raised

====
